---- MODULE Spec2Model ----
(***************************************************************************)
(* A model of qmem: the patch timelines (_patch.py), the qubit map         *)
(* (_controller.py), the breadth-first path generator                      *)
(* (_path_generator.py), the boundary-type propagation                     *)
(* (utility/_tqec_helpler.py), the Move and Idle operations                *)
(* (_operation.py) and the orchestrator QMemory (_qmem.py).                *)
(*                                                                         *)
(* Conventions.  A coordinate Vec2(x, y) is the tuple <<x, y>> and a       *)
(* Position3D(x, y, z) the tuple <<x, y, z>>, all 0-based as in the code.  *)
(* A layout is a sequence of rows; layout[y][x] of the code is             *)
(* layout[y+1][x+1] here.  Python's None is NoCoord for a coordinate,      *)
(* NoQid for a qubit id and NoKind for a cube kind.  An operator that      *)
(* models a function which can raise returns a record whose err field is  *)
(* "none" or the name of the exception.                                    *)
(***************************************************************************)
EXTENDS Integers, Sequences, FiniteSets, TLC

VARIABLES
    memory_layout,   \* QMemory.memory_layout, the list shared with the path generator and the controller
    memory_storage,  \* QMemory.memory_storage: coordinate -> TqecMemoryPatch
    coord_to_qid,    \* Controller.coord_to_qid
    qid_to_coord,    \* Controller.qid_to_coord
    last,            \* the last call made, its arguments, and what it returned or raised
    run_state,       \* the position of QMemory.run in its instruction stream
    arrival,         \* history: per qubit id, the cycle of the first Block its last Store put on its Data cell
    store_patches,   \* history: per qubit id, the chain of patches of its last Store
    operation        \* an Operation object built outside run: its attributes

vars == <<memory_layout, memory_storage, coord_to_qid, qid_to_coord, last, run_state, arrival,
          store_patches, operation>>

-----------------------------------------------------------------------------
(* Bounds of the model *)

\* length of every patch timeline (maximum_cycles, 1000 in QMemory.__init__)
MaxCycles == 8

\* qubit ids are 1..MaxQid
MaxQid == 2

\* largest cycle number of an instruction stream
MaxReqCycle == 4

\* most instructions in an instruction stream
MaxInstructions == 3

\* most cycles (keys) in an instruction stream
MaxStreamCycles == 2

Qids == 1..MaxQid
Cycles == 0..(MaxCycles - 1)

-----------------------------------------------------------------------------
(* Values *)

NoCoord == <<>>
NoQid == -1
NoKind == <<>>

Bases == {"X", "Z"}
Kinds == Bases \X Bases \X Bases

\* ZXCube.from_str("XZX"), the default of get_cube_kind
DefaultKind == <<"X", "Z", "X">>

Abs(n) == IF n < 0 THEN -n ELSE n
Max(a, b) == IF a >= b THEN a ELSE b

InSeq(e, s) == \E i \in 1..Len(s) : s[i] = e

Reverse(s) == [i \in 1..Len(s) |-> s[Len(s) + 1 - i]]

\* F applied to the value of e, with e evaluated once: the sequential
\* "x = e; ... x ... x ..." of the code
Eval(e, F(_)) == CHOOSE r \in {F(x) : x \in {e}} : TRUE

-----------------------------------------------------------------------------
(* utility/_tqec_helpler.py: boundary-type propagation *)

\* Basis.flipped() through zx_flip, on the two basis symbols
zx_flip(b) == IF b = "X" THEN "Z" ELSE "X"

\* PositionToDynamicMapper.type_to_dynamic, 1-based
type_to_dynamic(axis) == CASE axis = "X" -> 1 [] axis = "Y" -> 2 [] axis = "Z" -> 3

\* excluder(axis1, axis2)[0], used only when the two axes differ
excluder(axis1, axis2) == CHOOSE a \in {"X", "Y", "Z"} \ {axis1, axis2} : TRUE

\* cube_dynamic: the one axis along which the position changed, or the
\* ValueError it raises ("Stationary", "Diagonal")
cube_dynamic(prev_pos, current_pos) ==
    LET active_axes == SelectSeq(<<"X", "Y", "Z">>,
                          LAMBDA a : Abs(current_pos[type_to_dynamic(a)]
                                         - prev_pos[type_to_dynamic(a)]) > 0)
    IN  IF Len(active_axes) = 0 THEN "Stationary"
        ELSE IF Len(active_axes) > 1 THEN "Diagonal"
        ELSE active_axes[1]

DynamicErrors == {"Stationary", "Diagonal"}

\* a propagation that flips the component of the movement axis itself
next_cube_kind_flips_own_axis(prev_kind, movement_axis1, movement_axis2) ==
    IF movement_axis1 = movement_axis2
    THEN prev_kind
    ELSE [prev_kind EXCEPT ![type_to_dynamic(movement_axis1)] =
             zx_flip(prev_kind[type_to_dynamic(movement_axis1)])]

\* a propagation with the test of the two axes inverted
next_cube_kind_flips_when_straight(prev_kind, movement_axis1, movement_axis2) ==
    IF movement_axis1 # movement_axis2
    THEN prev_kind
    ELSE [prev_kind EXCEPT ![type_to_dynamic(movement_axis1)] =
             zx_flip(prev_kind[type_to_dynamic(movement_axis1)])]

\* the kind appended at step i of generate_cube_kinds
next_cube_kind(prev_kind, movement_axis1, movement_axis2) ==
    IF movement_axis1 = movement_axis2
    THEN [prev_kind EXCEPT ![type_to_dynamic(movement_axis1)] =
                               prev_kind[type_to_dynamic(movement_axis1)]]
    ELSE [prev_kind EXCEPT ![type_to_dynamic(movement_axis1)] =
             zx_flip(prev_kind[type_to_dynamic(excluder(movement_axis1, movement_axis2))])]

\* the loop "for i in range(1, size)", i 1-based here
RECURSIVE cube_kinds_loop(_, _, _)
cube_kinds_loop(positions, i, kinds_so_far) ==
    Eval(kinds_so_far, LAMBDA cube_kinds :
        IF i > Len(positions) THEN [err |-> "none", kinds |-> cube_kinds]
        ELSE LET movement_axis1 == cube_dynamic(positions[i - 1], positions[i])
             IN  IF movement_axis1 \in DynamicErrors
                 THEN [err |-> "ValueError", kinds |-> <<>>]
                 ELSE LET movement_axis2 ==
                              IF i + 1 <= Len(positions)
                              THEN cube_dynamic(positions[i], positions[i + 1])
                              ELSE movement_axis1
                      IN  IF movement_axis2 \in DynamicErrors
                          THEN [err |-> "ValueError", kinds |-> <<>>]
                          ELSE cube_kinds_loop(positions, i + 1,
                                  Append(cube_kinds,
                                         next_cube_kind(cube_kinds[Len(cube_kinds)],
                                                        movement_axis1, movement_axis2))))

\* generate_cube_kinds(positions, initial_kind)
generate_cube_kinds(positions, initial_kind) ==
    cube_kinds_loop(positions, 2, <<initial_kind>>)

-----------------------------------------------------------------------------
(* _path_generator.py: BFSPathGenerator *)

Rows(map) == Len(map)
Cols(map) == IF Len(map) > 0 THEN Len(map[1]) ELSE 0
CellsOf(map) == (0..(Cols(map) - 1)) \X (0..(Rows(map) - 1))
At(map, c) == map[c[2] + 1][c[1] + 1]

\* map[c.y][c.x] = 1 on the shallow copy, whose rows are the rows of self.map
MarkWalkable(map, c) == [map EXCEPT ![c[2] + 1][c[1] + 1] = 1]

directions == << <<0, 1>>, <<1, 0>>, <<0, -1>>, <<-1, 0>> >>

\* a neighbour test that lets the search enter every cell that is no wall
BFSWalkableNonWall(map, neighbor, visited) ==
    /\ 0 <= neighbor[1] /\ neighbor[1] < Cols(map)
    /\ 0 <= neighbor[2] /\ neighbor[2] < Rows(map)
    /\ At(map, neighbor) >= 0
    /\ neighbor \notin visited

\* a neighbour test that lets the search enter every cell of the grid
BFSWalkable_enters_walls(map, neighbor, visited) ==
    /\ 0 <= neighbor[1] /\ neighbor[1] < Cols(map)
    /\ 0 <= neighbor[2] /\ neighbor[2] < Rows(map)
    /\ neighbor \notin visited

\* the neighbour test of the search loop
BFSWalkable(map, neighbor, visited) ==
    /\ 0 <= neighbor[1] /\ neighbor[1] < Cols(map)
    /\ 0 <= neighbor[2] /\ neighbor[2] < Rows(map)
    /\ At(map, neighbor) > 0
    /\ neighbor \notin visited

\* the for-loop over directions for one dequeued cell; the search state is
\* the queue and the parent dict (visited is its key set)
RECURSIVE bfs_expand(_, _, _, _)
bfs_expand(map, current, d, search) ==
    Eval(search, LAMBDA s :
        IF d > Len(directions) THEN s
        ELSE LET neighbor == <<current[1] + directions[d][1],
                               current[2] + directions[d][2]>>
             IN  IF BFSWalkable(map, neighbor, DOMAIN s.parent)
                 THEN bfs_expand(map, current, d + 1,
                                 [queue |-> Append(s.queue, neighbor),
                                  parent |-> s.parent @@ (neighbor :> current)])
                 ELSE bfs_expand(map, current, d + 1, s))

\* the path rebuilt from the parent links, start first
RECURSIVE bfs_reconstruct(_, _)
bfs_reconstruct(parent, node) ==
    Eval(node, LAMBDA current :
        IF current = NoCoord THEN <<>>
        ELSE Append(bfs_reconstruct(parent, parent[current]), current))

\* the while-loop over the queue; <<>> when the queue runs empty
RECURSIVE bfs_search(_, _, _)
bfs_search(map, goals, search) ==
    Eval(search, LAMBDA s :
        IF s.queue = <<>> THEN <<>>
        ELSE LET current == Head(s.queue)
             IN  IF InSeq(current, goals) THEN bfs_reconstruct(s.parent, current)
                 ELSE bfs_search(map, goals,
                          bfs_expand(map, current, 1,
                                     [queue |-> Tail(s.queue), parent |-> s.parent])))

\* the goal loop: raises at the first wall goal, marks the goals before it
RECURSIVE bfs_mark_goals(_, _, _)
bfs_mark_goals(map_in, goals, i) ==
    Eval(map_in, LAMBDA map :
        IF i > Len(goals) THEN [err |-> "none", map |-> map]
        ELSE IF At(map, goals[i]) < 0 THEN [err |-> "ValueError", map |-> map]
        ELSE bfs_mark_goals(MarkWalkable(map, goals[i]), goals, i + 1))

\* BFSPathGenerator.path(start, goals): the exception if any, the returned
\* list, and self.map as the call leaves it
bfs_path(map, start, goals) ==
    Eval(bfs_mark_goals(map, goals, 1), LAMBDA g :
        IF g.err # "none" THEN [err |-> "ValueError", path |-> <<>>, map |-> g.map]
        ELSE IF At(g.map, start) < 0
        THEN [err |-> "ValueError", path |-> <<>>, map |-> g.map]
        ELSE Eval(MarkWalkable(g.map, start), LAMBDA m :
                 [err |-> "none",
                  path |-> bfs_search(m, goals,
                              [queue |-> <<start>>, parent |-> (start :> NoCoord)]),
                  map |-> m]))

-----------------------------------------------------------------------------
(* _patch.py: TqecMemoryPatch *)

\* a timeline slot: None, or a Cube with its kind (None until it is set)
EmptySlot == [cube |-> FALSE, kind |-> NoKind]
CubeSlot(cube_kind) == [cube |-> TRUE, kind |-> cube_kind]

\* TqecMemoryPatch.__init__
NewPatch(patch_type) ==
    [patch_type |-> patch_type,
     cycle_layer |-> [c \in Cycles |-> EmptySlot],
     current_occupied_cycle |-> -1]

\* _cycle_layer[i] for the indices the code reads: a negative index counts
\* from the end of the list
LayerAt(patch, i) ==
    IF i < 0 THEN patch.cycle_layer[MaxCycles + i] ELSE patch.cycle_layer[i]

\* add_a_cube without its conflict check
add_a_cube_overwrites(patch, cycle, cube_kind) ==
    IF cycle \notin Cycles THEN [err |-> "IndexError", patch |-> patch]
    ELSE [err |-> "none",
          patch |-> [patch EXCEPT
                        !.cycle_layer[cycle] = CubeSlot(cube_kind),
                        !.current_occupied_cycle = Max(@, cycle)]]

\* add_a_cube recording the cycle just written as the highest occupied one
add_a_cube_sets_current_cycle(patch, cycle, cube_kind) ==
    IF cycle \notin Cycles THEN [err |-> "IndexError", patch |-> patch]
    ELSE IF patch.cycle_layer[cycle].cube
    THEN [err |-> "ValueError", patch |-> patch]
    ELSE [err |-> "none",
          patch |-> [patch EXCEPT
                        !.cycle_layer[cycle] = CubeSlot(cube_kind),
                        !.current_occupied_cycle = cycle]]

\* add_a_cube(cycle, cube_kind): the exception if any, and the patch after
add_a_cube(patch, cycle, cube_kind) ==
    IF cycle \notin Cycles THEN [err |-> "IndexError", patch |-> patch]
    ELSE IF patch.cycle_layer[cycle].cube
    THEN [err |-> "ValueError", patch |-> patch]
    ELSE [err |-> "none",
          patch |-> [patch EXCEPT
                        !.cycle_layer[cycle] = CubeSlot(cube_kind),
                        !.current_occupied_cycle = Max(@, cycle)]]

\* set_cube_kind leaving the cube as add_a_cube made it
set_cube_kind_keeps_kind(patch, cycle, cube_kind) ==
    [err |-> "none", patch |-> patch]

\* set_cube_kind(cycle, cube_kind)
set_cube_kind(patch, cycle, cube_kind) ==
    IF cycle \notin Cycles THEN [err |-> "IndexError", patch |-> patch]
    ELSE IF ~patch.cycle_layer[cycle].cube
    THEN [err |-> "ValueError", patch |-> patch]
    ELSE [err |-> "none",
          patch |-> [patch EXCEPT !.cycle_layer[cycle].kind = cube_kind]]

\* the while-loop of get_cube_kind: the first index at or below cyl, down to
\* -1, that is negative or holds a cube
RECURSIVE scan_back(_, _)
scan_back(patch, cyl) ==
    IF cyl >= 0 /\ ~patch.cycle_layer[cyl].cube THEN scan_back(patch, cyl - 1)
    ELSE cyl

\* get_cube_kind(cycle); a negative cycle indexes the list from its end, as
\* the cycle - 1 a Yoke scheduled at cycle 0 asks for
get_cube_kind(patch, cycle) ==
    IF cycle >= MaxCycles \/ cycle - 1 < -MaxCycles
    THEN [err |-> "IndexError", kind |-> NoKind]
    ELSE IF ~LayerAt(patch, cycle).cube
    THEN [err |-> "ValueError", kind |-> NoKind]
    ELSE LET cyl == scan_back(patch, cycle - 1)
         IN  IF LayerAt(patch, cyl).cube
             THEN [err |-> "none", kind |-> LayerAt(patch, cyl).kind]
             ELSE [err |-> "none", kind |-> DefaultKind]

\* is_free_at_cycle(cycle)
is_free_at_cycle(patch, cycle) == ~patch.cycle_layer[cycle].cube

\* next_available_cycle answering the requested cycle whatever is occupied
next_available_cycle_ignores_occupied(patch, start_cycle) == start_cycle

\* next_available_cycle answering the patch's latest occupied cycle as free
next_available_cycle_returns_occupied(patch, start_cycle) ==
    Max(start_cycle, patch.current_occupied_cycle)

\* next_available_cycle(start_cycle)
next_available_cycle(patch, start_cycle) ==
    Max(start_cycle, patch.current_occupied_cycle + 1)

-----------------------------------------------------------------------------
(* _controller.py: Controller and SimpleController *)

\* the cells of a layout in the order of the two nested enumerate loops
RECURSIVE ScanFrom(_, _, _)
ScanFrom(layout, x, y) ==
    IF y >= Rows(layout) THEN <<>>
    ELSE IF x >= Cols(layout) THEN ScanFrom(layout, 0, y + 1)
    ELSE <<(<<x, y>>)>> \o ScanFrom(layout, x + 1, y)

ScanOrder(layout) == ScanFrom(layout, 0, 0)

\* a map slot for every cell that is no wall
IsMapSlotValueNotWall(cell) == cell >= 0

\* the cell values for which Controller.__init__ creates a map slot
IsMapSlotValue(cell) == cell = 0

\* Controller.__init__: coord_to_qid has one key, holding None, per cell 0
InitCoordToQid(layout) ==
    [c \in {d \in CellsOf(layout) : IsMapSlotValue(At(layout, d))} |-> NoQid]

\* the keys of coord_to_qid in dict order, the order __init__ inserted them in
CoordOrder(layout, c2q) == SelectSeq(ScanOrder(layout), LAMBDA c : c \in DOMAIN c2q)

\* qid_to_coord is a dict: here the sequence of its items in insertion order
DictHas(q2c, q_id) == \E i \in 1..Len(q2c) : q2c[i].qid = q_id
DictGet(q2c, q_id) == q2c[CHOOSE i \in 1..Len(q2c) : q2c[i].qid = q_id].coord
DictSet(q2c, q_id, coord) ==
    IF DictHas(q2c, q_id)
    THEN [i \in 1..Len(q2c) |->
             IF q2c[i].qid = q_id THEN [qid |-> q_id, coord |-> coord] ELSE q2c[i]]
    ELSE Append(q2c, [qid |-> q_id, coord |-> coord])

\* get_mapping_coord(q_id)
get_mapping_coord(q2c, q_id) ==
    IF ~DictHas(q2c, q_id) THEN [err |-> "KeyError", coord |-> NoCoord]
    ELSE IF DictGet(q2c, q_id) = NoCoord THEN [err |-> "ValueError", coord |-> NoCoord]
    ELSE [err |-> "none", coord |-> DictGet(q2c, q_id)]

\* get_mapping_qid(coord)
get_mapping_qid(c2q, coord) ==
    IF coord \notin DOMAIN c2q THEN [err |-> "KeyError", qid |-> NoQid]
    ELSE IF c2q[coord] = NoQid THEN [err |-> "ValueError", qid |-> NoQid]
    ELSE [err |-> "none", qid |-> c2q[coord]]

\* get_in_memory_qids(), in dict order
get_in_memory_qids(q2c) ==
    LET items == SelectSeq(q2c, LAMBDA it : it.coord # NoCoord)
    IN  [i \in 1..Len(items) |-> items[i].qid]

\* unmap that forgets to clear coord_to_qid
unmap_keeps_coord(c2q, q2c, q_id) ==
    LET g == get_mapping_coord(q2c, q_id)
    IN  IF g.err # "none" THEN [err |-> g.err, c2q |-> c2q, q2c |-> q2c]
        ELSE [err |-> "none", c2q |-> c2q, q2c |-> DictSet(q2c, q_id, NoCoord)]

\* unmap(q_id)
unmap(c2q, q2c, q_id) ==
    LET g == get_mapping_coord(q2c, q_id)
    IN  IF g.err # "none" THEN [err |-> g.err, c2q |-> c2q, q2c |-> q2c]
        ELSE [err |-> "none",
              c2q |-> [c2q EXCEPT ![g.coord] = NoQid],
              q2c |-> DictSet(q2c, q_id, NoCoord)]

\* map that takes the last free key instead of the first
map_qubit_takes_last_free(layout, c2q, q2c, q_id) ==
    LET free == SelectSeq(CoordOrder(layout, c2q), LAMBDA c : c2q[c] = NoQid)
    IN  IF free = <<>>
        THEN [err |-> "ValueError", coord |-> NoCoord, c2q |-> c2q, q2c |-> q2c]
        ELSE [err |-> "none", coord |-> free[Len(free)],
              c2q |-> [c2q EXCEPT ![free[Len(free)]] = q_id],
              q2c |-> DictSet(q2c, q_id, free[Len(free)])]

\* SimpleController.map(q_id, cyl): the first key of coord_to_qid holding None
map_qubit(layout, c2q, q2c, q_id) ==
    LET free == SelectSeq(CoordOrder(layout, c2q), LAMBDA c : c2q[c] = NoQid)
    IN  IF free = <<>>
        THEN [err |-> "ValueError", coord |-> NoCoord, c2q |-> c2q, q2c |-> q2c]
        ELSE [err |-> "none", coord |-> free[1],
              c2q |-> [c2q EXCEPT ![free[1]] = q_id],
              q2c |-> DictSet(q2c, q_id, free[1])]


-----------------------------------------------------------------------------
(* _operation.py: MoveOperation (Load, Store) and IdleOperation *)

Position3D(coord, cycle) == <<coord[1], coord[2], cycle>>
Pipe(from_pos, to_pos) == <<from_pos, to_pos>>

\* one "patch.add_a_cube(cycle); positions.append(...)" of MoveOperation.run,
\* followed by "cycle += 1" when advance is set.  The state of a run is the
\* exception raised so far, the patches, the positions and the cursor cycle
MoveAdd(run_in, coord, advance) ==
    Eval(run_in, LAMBDA s :
        IF s.err # "none" THEN s
        ELSE Eval(add_a_cube(s.storage[coord], s.cycle, NoKind), LAMBDA r :
                 IF r.err # "none" THEN [s EXCEPT !.err = r.err]
                 ELSE [s EXCEPT !.storage[coord] = r.patch,
                                !.positions = Append(@, Position3D(coord, s.cycle)),
                                !.cycle = IF advance THEN @ + 1 ELSE @]))

\* the stall loop adding one Block more than the wait needs
RECURSIVE MoveStall_waits_once_more(_, _, _)
MoveStall_waits_once_more(run_in, curr_patch, next_patch) ==
    Eval(run_in, LAMBDA s :
        IF s.err # "none" THEN s
        ELSE IF next_available_cycle(s.storage[next_patch], s.cycle) # s.cycle
        THEN MoveStall_waits_once_more(MoveAdd(s, curr_patch, TRUE), curr_patch, next_patch)
        ELSE MoveAdd(s, curr_patch, TRUE))

\* the hop taken at once, whether or not next_patch is busy
MoveStall_does_not_wait(run_in, curr_patch, next_patch) == run_in

\* the stall loop: while next_patch.next_available_cycle(cycle) != cycle
RECURSIVE MoveStall(_, _, _)
MoveStall(run_in, curr_patch, next_patch) ==
    Eval(run_in, LAMBDA s :
        IF s.err # "none" THEN s
        ELSE IF next_available_cycle(s.storage[next_patch], s.cycle) # s.cycle
        THEN MoveStall(MoveAdd(s, curr_patch, TRUE), curr_patch, next_patch)
        ELSE s)

\* the loop "for i in range(len(self.patches) - 1)", i 1-based here
RECURSIVE MoveChain(_, _, _)
MoveChain(run_in, patches, i) ==
    Eval(run_in, LAMBDA s :
        IF i > Len(patches) - 1 THEN s
        ELSE MoveChain(MoveAdd(MoveStall(s, patches[i], patches[i + 1]),
                               patches[i], FALSE),
                       patches, i + 1))

\* the loop "for ck, pos in zip(cube_kinds, positions)": set_cube_kind on the
\* patch that owns each position
RECURSIVE MoveSetKinds(_, _, _, _)
MoveSetKinds(storage_in, cube_kinds, positions, i) ==
    Eval(storage_in, LAMBDA storage :
        IF i > Len(positions) \/ i > Len(cube_kinds)
        THEN [err |-> "none", storage |-> storage]
        ELSE Eval(set_cube_kind(storage[<<positions[i][1], positions[i][2]>>],
                                positions[i][3], cube_kinds[i]),
                  LAMBDA r :
                      IF r.err # "none" THEN [err |-> r.err, storage |-> storage]
                      ELSE MoveSetKinds(
                               [storage EXCEPT ![<<positions[i][1], positions[i][2]>>] = r.patch],
                               cube_kinds, positions, i + 1)))

\* the pipes between consecutive positions, the last pair left out
ChainPipes_drops_last(positions) ==
    [i \in 1..(Len(positions) - 2) |-> Pipe(positions[i], positions[i + 1])]

\* the pipes between consecutive positions
ChainPipes(positions) ==
    [i \in 1..(Len(positions) - 1) |-> Pipe(positions[i], positions[i + 1])]

\* the cubes of a Move whose last patch gets the arrival Block only
MoveCubes_without_settle(storage, patches, cycle0) ==
    MoveAdd(
        MoveChain(
            IF storage[patches[1]].patch_type = "O"
            THEN MoveAdd([err |-> "none", storage |-> storage,
                          positions |-> <<>>, cycle |-> cycle0], patches[1], TRUE)
            ELSE [err |-> "none", storage |-> storage,
                  positions |-> <<>>, cycle |-> cycle0],
            patches, 1),
        patches[Len(patches)], FALSE)

\* the first half of MoveOperation.run: the cubes added along the chain
\* self.patches (coordinates), the cursor starting at cycle0
MoveCubes(storage, patches, cycle0) ==
    MoveAdd(
        MoveAdd(
            MoveChain(
                IF storage[patches[1]].patch_type = "O"
                THEN MoveAdd([err |-> "none", storage |-> storage,
                              positions |-> <<>>, cycle |-> cycle0], patches[1], TRUE)
                ELSE [err |-> "none", storage |-> storage,
                      positions |-> <<>>, cycle |-> cycle0],
                patches, 1),
            patches[Len(patches)], TRUE),
        patches[Len(patches)], FALSE)

\* the pipe run opens with when from_patch is no Outlet
MoveFirstPipes(storage, from_patch, cycle0) ==
    IF storage[from_patch].patch_type = "O" THEN <<>>
    ELSE <<Pipe(Position3D(from_patch, cycle0 - 1), Position3D(from_patch, cycle0))>>

MoveResult(err, storage, positions, pipes) ==
    [err |-> err, storage |-> storage, positions |-> positions, pipes |-> pipes]

\* the second half of MoveOperation.run: the cube kinds computed from
\* from_patch's kind at cycle0 and written back, and the pipes
MoveKinds(s, pipes0, from_patch, cycle0) ==
    IF s.err # "none" THEN MoveResult(s.err, s.storage, <<>>, <<>>)
    ELSE Eval(get_cube_kind(s.storage[from_patch], cycle0), LAMBDA bases :
        IF bases.err # "none" THEN MoveResult(bases.err, s.storage, <<>>, <<>>)
        ELSE IF bases.kind = NoKind
        THEN MoveResult("AttributeError", s.storage, <<>>, <<>>)
        ELSE Eval(generate_cube_kinds(s.positions, bases.kind), LAMBDA ck :
            IF ck.err # "none" THEN MoveResult(ck.err, s.storage, <<>>, <<>>)
            ELSE Eval(MoveSetKinds(s.storage, ck.kinds, s.positions, 1), LAMBDA k :
                IF k.err # "none" THEN MoveResult(k.err, k.storage, <<>>, <<>>)
                ELSE MoveResult("none", k.storage, s.positions,
                                pipes0 \o ChainPipes(s.positions)))))

\* MoveOperation.run() for the chain self.patches requested at self.cycle:
\* the exception if any, the patches as the call leaves them, and
\* self.positions and self.pipes (set only when the run completes)
MoveRun(storage, chain, req_cycle) ==
    Eval(chain, LAMBDA patches :
        Eval(next_available_cycle(storage[patches[1]], req_cycle), LAMBDA cycle0 :
            Eval(MoveCubes(storage, patches, cycle0), LAMBDA s :
                MoveKinds(s, MoveFirstPipes(storage, patches[1], cycle0),
                          patches[1], cycle0))))

\* an Idle that takes every patch for busy and adds nothing
IdleRun_always_busy(storage, idling_patch, req_cycle) ==
    MoveResult("none", storage, <<>>, <<>>)

\* IdleOperation.run() on idling_patch requested at cycle: positions is <<>>
\* when the call returns None (the patch is busy)
IdleRun(storage, idling_patch, req_cycle) ==
    Eval(next_available_cycle(storage[idling_patch], req_cycle), LAMBDA cycle :
        IF cycle > req_cycle THEN MoveResult("none", storage, <<>>, <<>>)
        ELSE Eval(add_a_cube(storage[idling_patch], cycle, NoKind), LAMBDA a :
            IF a.err # "none" THEN MoveResult(a.err, storage, <<>>, <<>>)
            ELSE Eval(get_cube_kind(a.patch, cycle), LAMBDA ck :
                Eval(set_cube_kind(a.patch, cycle, ck.kind), LAMBDA k :
                    MoveResult("none",
                               [storage EXCEPT ![idling_patch] = k.patch],
                               <<Position3D(idling_patch, cycle)>>,
                               <<Pipe(Position3D(idling_patch, cycle - 1),
                                      Position3D(idling_patch, cycle))>>)))))

\* the largest of a list of cycles, at least floor
RECURSIVE MaxOf(_, _)
MaxOf(cycles, floor) ==
    IF cycles = <<>> THEN floor ELSE MaxOf(Tail(cycles), Max(Head(cycles), floor))

\* the scheduled cycle computed from the target patches alone
yoke_init_ignores_hallway(storage, target_patches, access_hallway_patches, cycle) ==
    LET next_available_cycles ==
            [i \in 1..Len(target_patches) |->
                next_available_cycle(storage[target_patches[i]], cycle)]
    IN  Max(cycle, MaxOf(next_available_cycles, cycle))

\* YokeOperation.__init__: self.cycle, the cycle the Yoke is scheduled at
yoke_init(storage, target_patches, access_hallway_patches, cycle) ==
    LET participants == target_patches \o access_hallway_patches
        next_available_cycles ==
            [i \in 1..Len(participants) |->
                next_available_cycle(storage[participants[i]], cycle)]
        max_next_available_cycle == MaxOf(next_available_cycles, cycle)
    IN  Max(cycle, max_next_available_cycle)

\* "[patch.get_cube_kind(cycle - 1) for patch in self.patches]": the first
\* exception if any, and the kinds read
RECURSIVE yoke_cube_kinds(_, _, _, _)
yoke_cube_kinds(storage, patches, i, cycle) ==
    IF i > Len(patches) THEN [err |-> "none", kinds |-> <<>>]
    ELSE Eval(get_cube_kind(storage[patches[i]], cycle - 1), LAMBDA ck :
        IF ck.err # "none" THEN [err |-> ck.err, kinds |-> <<>>]
        ELSE Eval(yoke_cube_kinds(storage, patches, i + 1, cycle), LAMBDA rest :
            [err |-> rest.err, kinds |-> IF rest.err = "none" THEN <<ck.kind>> \o rest.kinds
                                         ELSE <<>>]))

\* cube_kinds.count(kind)
KindCount(cube_kinds, kind) == Cardinality({i \in 1..Len(cube_kinds) : cube_kinds[i] = kind})

\* the values max(set(cube_kinds), key=cube_kinds.count) can return: a kind
\* of the largest count; which of several the call returns depends on the
\* iteration order of the set
majority_kinds(cube_kinds) ==
    {cube_kinds[i] : i \in {k \in 1..Len(cube_kinds) :
        \A l \in 1..Len(cube_kinds) :
            KindCount(cube_kinds, cube_kinds[l]) <= KindCount(cube_kinds, cube_kinds[k])}}

\* one loop of YokeOperation.run over a list of patches: add_a_cube(cycle,
\* kind) on each, its position appended, and when piped the Pipe from the
\* cycle before
RECURSIVE YokeAdd(_, _, _, _, _, _)
YokeAdd(run_in, patches, i, cycle, kind, piped) ==
    Eval(run_in, LAMBDA s :
        IF s.err # "none" \/ i > Len(patches) THEN s
        ELSE Eval(add_a_cube(s.storage[patches[i]], cycle, kind), LAMBDA r :
            IF r.err # "none" THEN [s EXCEPT !.err = r.err]
            ELSE YokeAdd(
                     [s EXCEPT !.storage[patches[i]] = r.patch,
                               !.positions = Append(@, Position3D(patches[i], cycle)),
                               !.pipes = IF piped
                                         THEN Append(@, Pipe(Position3D(patches[i], cycle - 1),
                                                             Position3D(patches[i], cycle)))
                                         ELSE @],
                     patches, i + 1, cycle, kind, piped)))

\* the pipes of YokeOperation.run at the Yoke's cycle: from every target
\* patch to the access line, and along the access line
YokePipes(op) ==
    LET cycle == op.cycle
        row_df == op.patches[1][2] - op.access_hallway_patches[1][2]
        col_df == op.patches[1][1] - op.access_hallway_patches[1][1]
    IN  (IF op.op_type = "YOKE_ROW"
         THEN [i \in 1..Len(op.patches) |->
                  Pipe(Position3D(op.patches[i], cycle),
                       <<op.patches[i][1], op.patches[i][2] - row_df, cycle>>)]
         ELSE IF op.op_type = "YOKE_COL"
         THEN [i \in 1..Len(op.patches) |->
                  Pipe(Position3D(op.patches[i], cycle),
                       <<op.patches[i][1] - col_df, op.patches[i][2], cycle>>)]
         ELSE <<>>)
        \o [i \in 1..(Len(op.access_hallway_patches) - 1) |->
               Pipe(Position3D(op.access_hallway_patches[i], cycle),
                    Position3D(op.access_hallway_patches[i + 1], cycle))]

\* "kind[1] = kind[1].flipped()": the kind of the access-line Blocks
yoke_hallway_kind(op, kind) == <<kind[1], zx_flip(kind[2]), kind[3]>>

\* "ZXCube(x=kind[0], y=kind[1].flipped(), z=kind[2])": the flip reverted
yoke_settle_kind(hallway_kind) ==
    <<hallway_kind[1], zx_flip(hallway_kind[2]), hallway_kind[3]>>

\* YokeOperation.run() with majority_kind the value max() returned: the
\* exception if any, the patches as the call leaves them, and self.positions
\* and self.pipes, which the call appends to as it goes
yoke_run(storage, op, majority_kind) ==
    IF majority_kind = NoKind
    THEN MoveResult("AttributeError", storage, op.positions, op.pipes)
    ELSE Eval(YokeAdd(MoveResult("none", storage, op.positions, op.pipes),
                      op.patches, 1, op.cycle, majority_kind, TRUE), LAMBDA targets :
         Eval(YokeAdd(targets, op.access_hallway_patches, 1, op.cycle,
                      yoke_hallway_kind(op, majority_kind), FALSE), LAMBDA hallway :
             IF hallway.err # "none" THEN hallway
             ELSE IF op.access_hallway_patches = <<>>
             THEN [hallway EXCEPT !.err = "IndexError"]
             ELSE YokeAdd([hallway EXCEPT !.pipes = @ \o YokePipes(op)],
                          op.patches, 1, op.cycle + 1,
                          yoke_settle_kind(yoke_hallway_kind(op, majority_kind)), TRUE)))

-----------------------------------------------------------------------------
(* _qmem.py: QMemory *)

\* the patch type QMemory.__init__ gives a cell value
PatchTypeOf(cell) ==
    CASE cell = 0 -> "D" [] cell = 1 -> "A" [] cell = 2 -> "O" [] cell = -1 -> "W"

\* QMemory.__init__: memory_storage
InitMemoryStorage(layout) ==
    [c \in CellsOf(layout) |-> NewPatch(PatchTypeOf(At(layout, c)))]

\* QMemory.outlet_points: the cells of value 2, in scan order
outlet_points(layout, storage) ==
    SelectSeq(ScanOrder(layout), LAMBDA c : storage[c].patch_type = "O")

\* generate_path without "if not paths: raise ValueError": paths[0] of the
\* empty list raises IndexError
generate_path_unchecked(layout, coord_from, coord_to) ==
    Eval(bfs_path(layout, coord_from, coord_to), LAMBDA r :
        IF r.err # "none"
        THEN [err |-> r.err, map |-> r.map, from_patch |-> NoCoord,
              access_hallway_patches |-> <<>>, to_patch |-> NoCoord]
        ELSE IF r.path = <<>>
        THEN [err |-> "IndexError", map |-> r.map, from_patch |-> NoCoord,
              access_hallway_patches |-> <<>>, to_patch |-> NoCoord]
        ELSE [err |-> "none", map |-> r.map, from_patch |-> r.path[1],
              access_hallway_patches |-> SubSeq(r.path, 2, Len(r.path) - 1),
              to_patch |-> r.path[Len(r.path)]])

\* generate_path(coord_from, coord_to): the chain is from_patch,
\* access_hallway_patches and to_patch
generate_path(layout, coord_from, coord_to) ==
    Eval(bfs_path(layout, coord_from, coord_to), LAMBDA r :
        IF r.err # "none"
        THEN [err |-> r.err, map |-> r.map, from_patch |-> NoCoord,
              access_hallway_patches |-> <<>>, to_patch |-> NoCoord]
        ELSE IF r.path = <<>>
        THEN [err |-> "ValueError", map |-> r.map, from_patch |-> NoCoord,
              access_hallway_patches |-> <<>>, to_patch |-> NoCoord]
        ELSE [err |-> "none", map |-> r.map, from_patch |-> r.path[1],
              access_hallway_patches |-> SubSeq(r.path, 2, Len(r.path) - 1),
              to_patch |-> r.path[Len(r.path)]])

\* what a call on the QMemory leaves behind: the exception if any, the four
\* pieces of state, and the operation's patches, positions and pipes
Outcome(err, layout, storage, c2q, q2c, patches, positions, pipes) ==
    [err |-> err, layout |-> layout, storage |-> storage, c2q |-> c2q, q2c |-> q2c,
     patches |-> patches, positions |-> positions, pipes |-> pipes]

\* load(q_id, cyl) followed by the operation's run(), as QMemory.run does
\* for a LOAD instruction
LoadAndRun(layout, storage, c2q, q2c, q_id, cyl) ==
    Eval(get_mapping_coord(q2c, q_id), LAMBDA g :
        IF g.err # "none"
        THEN Outcome(g.err, layout, storage, c2q, q2c, <<>>, <<>>, <<>>)
        ELSE Eval(unmap(c2q, q2c, q_id), LAMBDA u :
            Eval(generate_path(layout, g.coord, outlet_points(layout, storage)), LAMBDA p :
                IF p.err # "none"
                THEN Outcome(p.err, p.map, storage, u.c2q, u.q2c, <<>>, <<>>, <<>>)
                ELSE Eval(<<p.from_patch>> \o p.access_hallway_patches \o <<p.to_patch>>,
                          LAMBDA patches :
                    Eval(MoveRun(storage, patches, cyl), LAMBDA m :
                        Outcome(m.err, p.map, m.storage, u.c2q, u.q2c,
                                patches, m.positions, m.pipes))))))

\* store(q_id, cyl) followed by the operation's run(), as QMemory.run does
\* for a STORE instruction
StoreAndRun(layout, storage, c2q, q2c, q_id, cyl) ==
    Eval(map_qubit(layout, c2q, q2c, q_id), LAMBDA t :
        IF t.err # "none"
        THEN Outcome(t.err, layout, storage, c2q, q2c, <<>>, <<>>, <<>>)
        ELSE Eval(generate_path(layout, t.coord, outlet_points(layout, storage)), LAMBDA p :
            IF p.err # "none"
            THEN Outcome(p.err, p.map, storage, t.c2q, t.q2c, <<>>, <<>>, <<>>)
            ELSE Eval(<<p.to_patch>> \o Reverse(p.access_hallway_patches) \o <<p.from_patch>>,
                      LAMBDA patches :
                Eval(MoveRun(storage, patches, cyl), LAMBDA m :
                    Outcome(m.err, p.map, m.storage, t.c2q, t.q2c,
                            patches, m.positions, m.pipes)))))

\* idle(q_id, cyl) followed by the operation's run()
IdleAndRun(storage, q2c, q_id, cyl) ==
    Eval(get_mapping_coord(q2c, q_id), LAMBDA g :
        IF g.err # "none" THEN MoveResult(g.err, storage, <<>>, <<>>)
        ELSE IdleRun(storage, g.coord, cyl))

\* the loop "for qid in qids" that ends a cycle of run: an Idle for every
\* qubit id in memory
RECURSIVE IdleFill(_, _, _, _, _)
IdleFill(storage_in, q2c, qids, i, cyl) ==
    Eval(storage_in, LAMBDA storage :
        IF i > Len(qids) THEN [err |-> "none", storage |-> storage]
        ELSE Eval(IdleAndRun(storage, q2c, qids[i], cyl), LAMBDA r :
            IF r.err # "none" THEN [err |-> r.err, storage |-> r.storage]
            ELSE IdleFill(r.storage, q2c, qids, i + 1, cyl)))

\* no Operation object has been built
NoOperation ==
    [type |-> "none", patches |-> <<>>, access_hallway_patches |-> <<>>, cycle |-> -1,
     op_type |-> "none", has_pipes |-> FALSE, positions |-> <<>>, pipes |-> <<>>,
     calls |-> <<>>]

\* Vec2.row(y) and Vec2.column(x), the line a yoke instruction names
Vec2Row(y) == [is_row |-> TRUE, index |-> y]
Vec2Column(x) == [is_row |-> FALSE, index |-> x]

\* line.expand(range(limit)): the points of the line, in order
expand(line, limit) ==
    [i \in 1..limit |-> IF line.is_row THEN <<i - 1, line.index>>
                                       ELSE <<line.index, i - 1>>]

\* __yoke(line, cyl): the exception if any and the operation returned. The
\* filter of occupied_patches reads self.controller.mapping for the first
\* patch of the line; neither Controller nor SimpleController has such an
\* attribute, so the call ends there with AttributeError and the code below
\* the filter is never reached. Only an empty line gets past the filter, and
\* __yoke then returns None
yoke(layout, line, cyl) ==
    LET limit == IF line.is_row THEN Cols(layout) ELSE Rows(layout)
        all_points == expand(line, limit)
    IN  IF all_points # <<>>
        THEN [err |-> "AttributeError", operation |-> NoOperation]
        ELSE [err |-> "none", operation |-> NoOperation]

-----------------------------------------------------------------------------
(* QMemory.run over an instruction stream.  The stream is an input: its     *)
(* cycles (the keys of the dict, in the order the dict holds them) and the  *)
(* instructions of each cycle are chosen as run reaches them.               *)

\* the memory layouts the orchestrator is built on
Layouts ==
    { << <<0, 1, 2>> >>,
      << <<2, 1, 0, 0>> >>,
      << <<0, 0, -1>>, <<1, 1, 2>> >>,
      << <<0, -1, 0>>, <<2, -1, -1>> >>,
      << <<1, 1, 2>>, <<0, 0, -1>> >> }

\* the record of a call: its name, its arguments (a qubit id, a cycle, other
\* arguments), the exception it raised, the value it returned, and for an
\* operation that was run its patches, positions and pipes
Call(op, q_id, cyl, args, err, ret, patches, positions, pipes) ==
    [op |-> op, q_id |-> q_id, cyl |-> cyl, args |-> args, err |-> err, ret |-> ret,
     patches |-> patches, positions |-> positions, pipes |-> pipes]

NoCall == Call("none", NoQid, -1, <<>>, "none", <<>>, <<>>, <<>>, <<>>)

\* QMemory.__init__ on one of the layouts, and run entered
Init ==
    \E layout \in Layouts :
        /\ memory_layout = layout
        /\ memory_storage = InitMemoryStorage(layout)
        /\ coord_to_qid = InitCoordToQid(layout)
        /\ qid_to_coord = <<>>
        /\ last = NoCall
        /\ run_state = [pc |-> "next_cycle", cyl |-> -1, keys |-> {}, n_ops |-> 0]
        /\ arrival = [q \in Qids |-> -1]
        /\ store_patches = [q \in Qids |-> <<>>]
        /\ operation = NoOperation

\* "for cyl in instructions": the next key of the dict
RunBeginCycle(cyl) ==
    /\ run_state.pc = "next_cycle"
    /\ cyl \notin run_state.keys
    /\ Cardinality(run_state.keys) < MaxStreamCycles
    /\ run_state' = [run_state EXCEPT !.pc = "ops", !.cyl = cyl,
                                      !.keys = @ \cup {cyl}]
    /\ last' = Call("BEGIN", NoQid, cyl, <<>>, "none", <<>>, <<>>, <<>>, <<>>)
    /\ UNCHANGED <<memory_layout, memory_storage, coord_to_qid, qid_to_coord, arrival, store_patches, operation>>

\* the state run is left in by an instruction whose outcome is o: an
\* exception leaves run (nothing in run catches it). An instruction that
\* would index a timeline at MaxCycles or beyond is not taken: the timelines
\* of the code hold 1000 slots
AfterInstruction(op, q_id, o) ==
    /\ o.err # "IndexError"
    /\ memory_layout' = o.layout
    /\ memory_storage' = o.storage
    /\ coord_to_qid' = o.c2q
    /\ qid_to_coord' = o.q2c
    /\ last' = Call(op, q_id, run_state.cyl, <<>>, o.err, <<>>,
                     o.patches, o.positions, o.pipes)
    /\ run_state' = [run_state EXCEPT
                        !.pc = IF o.err = "none" THEN "ops" ELSE "raised",
                        !.n_ops = @ + 1]

\* a STORE instruction of the current cycle
RunStore(q_id) ==
    /\ run_state.pc = "ops"
    /\ run_state.n_ops < MaxInstructions
    /\ \E o \in {StoreAndRun(memory_layout, memory_storage, coord_to_qid,
                               qid_to_coord, q_id, run_state.cyl)} :
           /\ AfterInstruction("STORE", q_id, o)
           /\ arrival' = IF o.err = "none"
                         THEN [arrival EXCEPT ![q_id] = o.positions[Len(o.positions) - 1][3]]
                         ELSE arrival
           /\ store_patches' = IF o.err = "none"
                               THEN [store_patches EXCEPT ![q_id] = o.patches]
                               ELSE store_patches
    /\ UNCHANGED operation

\* a LOAD instruction of the current cycle
RunLoad(q_id) ==
    /\ run_state.pc = "ops"
    /\ run_state.n_ops < MaxInstructions
    /\ \E o \in {LoadAndRun(memory_layout, memory_storage, coord_to_qid,
                              qid_to_coord, q_id, run_state.cyl)} :
           AfterInstruction("LOAD", q_id, o)
    /\ UNCHANGED <<arrival, store_patches, operation>>

\* the rows and columns of the layout
YokeLines(layout) ==
    {Vec2Row(y) : y \in 0..(Rows(layout) - 1)} \cup {Vec2Column(x) : x \in 0..(Cols(layout) - 1)}

\* a YOKE_ROW or YOKE_COL instruction of the current cycle: __yoke, then
\* memory_operation.cycle, which a None returned by __yoke does not have
RunYoke(line) ==
    /\ run_state.pc = "ops"
    /\ run_state.n_ops < MaxInstructions
    /\ \E o \in {yoke(memory_layout, line, run_state.cyl)} :
           last' = Call(IF line.is_row THEN "YOKE_ROW" ELSE "YOKE_COL", NoQid,
                        run_state.cyl, <<line>>,
                        IF o.err # "none" THEN o.err ELSE "AttributeError",
                        <<>>, <<>>, <<>>, <<>>)
    /\ run_state' = [run_state EXCEPT !.pc = "raised", !.n_ops = @ + 1]
    /\ UNCHANGED <<memory_layout, memory_storage, coord_to_qid, qid_to_coord,
                   arrival, store_patches, operation>>

\* the end of a cycle: an Idle for every qubit id in memory
RunIdleFill ==
    /\ run_state.pc = "ops"
    /\ \E r \in {IdleFill(memory_storage, qid_to_coord,
                            get_in_memory_qids(qid_to_coord), 1, run_state.cyl)} :
           /\ r.err # "IndexError"
           /\ memory_storage' = r.storage
           /\ last' = Call("IDLEFILL", NoQid, run_state.cyl, <<>>, r.err, <<>>, <<>>, <<>>, <<>>)
           /\ run_state' = [run_state EXCEPT
                               !.pc = IF r.err = "none" THEN "next_cycle" ELSE "raised"]
    /\ UNCHANGED <<memory_layout, coord_to_qid, qid_to_coord, arrival, store_patches, operation>>

\* the stream is exhausted: the cycle loop is over and run gathers the cubes
\* of every patch with patch.get_cubes(), a method no class defines, so the
\* call ends in AttributeError; the memory stays as the loop left it
RunReturn ==
    /\ run_state.pc = "next_cycle"
    /\ run_state' = [run_state EXCEPT !.pc = "done"]
    /\ last' = Call("RETURN", NoQid, run_state.cyl, <<>>, "AttributeError", <<>>,
                     <<>>, <<>>, <<>>)
    /\ UNCHANGED <<memory_layout, memory_storage, coord_to_qid, qid_to_coord, arrival, store_patches, operation>>

Next ==
    \/ \E cyl \in 0..MaxReqCycle : RunBeginCycle(cyl)
    \/ \E q_id \in Qids : RunStore(q_id)
    \/ \E q_id \in Qids : RunLoad(q_id)
    \/ \E line \in YokeLines(memory_layout) : RunYoke(line)
    \/ RunIdleFill
    \/ RunReturn

Spec == Init /\ [][Next]_vars


-----------------------------------------------------------------------------
(* The controller on its own: map and unmap called in any order *)

ControllerLayouts == Layouts \cup { << <<1, 0>>, <<0, 2>> >> }

\* Controller.__init__ on a layout
InitController ==
    \E layout \in ControllerLayouts :
        /\ memory_layout = layout
        /\ memory_storage = InitMemoryStorage(layout)
        /\ coord_to_qid = InitCoordToQid(layout)
        /\ qid_to_coord = <<>>
        /\ last = NoCall
        /\ run_state = [pc |-> "api", cyl |-> -1, keys |-> {}, n_ops |-> 0]
        /\ arrival = [q \in Qids |-> -1]
        /\ store_patches = [q \in Qids |-> <<>>]
        /\ operation = NoOperation

\* controller.map(q_id, cyl)
ControllerMap(q_id, cyl) ==
    /\ \E r \in {map_qubit(memory_layout, coord_to_qid, qid_to_coord, q_id)} :
           /\ coord_to_qid' = r.c2q
           /\ qid_to_coord' = r.q2c
           /\ last' = Call("map", q_id, cyl, <<>>, r.err, r.coord, <<>>, <<>>, <<>>)
    /\ UNCHANGED <<memory_layout, memory_storage, run_state, arrival, store_patches, operation>>

\* controller.unmap(q_id)
ControllerUnmap(q_id) ==
    /\ \E r \in {unmap(coord_to_qid, qid_to_coord, q_id)} :
           /\ coord_to_qid' = r.c2q
           /\ qid_to_coord' = r.q2c
           /\ last' = Call("unmap", q_id, -1, <<>>, r.err, <<>>, <<>>, <<>>, <<>>)
    /\ UNCHANGED <<memory_layout, memory_storage, run_state, arrival, store_patches, operation>>

NextController ==
    \/ \E q_id \in Qids : ControllerMap(q_id, 0)
    \/ \E q_id \in Qids : ControllerUnmap(q_id)

SpecController == InitController /\ [][NextController]_vars

-----------------------------------------------------------------------------
(* One patch on its own: add_a_cube, set_cube_kind and get_cube_kind called *)
(* at any cycles *)

\* most calls made on the patch
MaxPatchCalls == 3

\* the kinds passed to add_a_cube and set_cube_kind (None is add_a_cube's default)
PatchKinds == {NoKind, <<"X", "Z", "X">>, <<"Z", "X", "X">>}

ThePatch == <<0, 0>>

InitPatch ==
    /\ memory_layout = << <<0>> >>
    /\ memory_storage = InitMemoryStorage(<< <<0>> >>)
    /\ coord_to_qid = InitCoordToQid(<< <<0>> >>)
    /\ qid_to_coord = <<>>
    /\ last = NoCall
    /\ run_state = [pc |-> "api", cyl |-> -1, keys |-> {}, n_ops |-> 0]
    /\ arrival = [q \in Qids |-> -1]
    /\ store_patches = [q \in Qids |-> <<>>]
    /\ operation = NoOperation

PatchCalled(op, cycle, args, r, ret) ==
    /\ run_state.n_ops < MaxPatchCalls
    /\ memory_storage' = [memory_storage EXCEPT ![ThePatch] = r.patch]
    /\ last' = Call(op, NoQid, cycle, args, r.err, ret, <<ThePatch>>, <<>>, <<>>)
    /\ run_state' = [run_state EXCEPT !.n_ops = @ + 1]
    /\ UNCHANGED <<memory_layout, coord_to_qid, qid_to_coord, arrival, store_patches, operation>>

\* patch.add_a_cube(cycle, cube_kind)
PatchAddCube(cycle, cube_kind) ==
    \E r \in {add_a_cube(memory_storage[ThePatch], cycle, cube_kind)} :
        PatchCalled("add_a_cube", cycle, <<cube_kind>>, r, <<>>)

\* patch.set_cube_kind(cycle, cube_kind)
PatchSetCubeKind(cycle, cube_kind) ==
    \E r \in {set_cube_kind(memory_storage[ThePatch], cycle, cube_kind)} :
        PatchCalled("set_cube_kind", cycle, <<cube_kind>>, r, <<>>)

\* patch.get_cube_kind(cycle)
PatchGetCubeKind(cycle) ==
    \E r \in {get_cube_kind(memory_storage[ThePatch], cycle)} :
        PatchCalled("get_cube_kind", cycle, <<>>,
                    [err |-> r.err, patch |-> memory_storage[ThePatch]], r.kind)

\* IdleOperation(patch, cycle).run()
PatchIdle(cycle) ==
    \E o \in {IdleRun(memory_storage, ThePatch, cycle)} :
        PatchCalled("IdleOperation", cycle, <<>>,
                    [err |-> o.err, patch |-> o.storage[ThePatch]], o.positions)

NextPatch ==
    \/ \E cycle \in Cycles, cube_kind \in PatchKinds : PatchAddCube(cycle, cube_kind)
    \/ \E cycle \in Cycles, cube_kind \in PatchKinds \ {NoKind} : PatchSetCubeKind(cycle, cube_kind)
    \/ \E cycle \in Cycles : PatchGetCubeKind(cycle)
    \/ \E cycle \in Cycles : PatchIdle(cycle)

SpecPatch == InitPatch /\ [][NextPatch]_vars


-----------------------------------------------------------------------------
(* The path generator on its own: one path or generate_path call on a grid *)

\* the most goals a call is given
MaxGoals == 2

\* the grids: two rows of three cells without outlets, two rows of two cells
\* of every type, and corridors of one to four cells without walls
PathLayouts ==
    [1..2 -> [1..3 -> {-1, 0, 1}]]
        \cup [1..2 -> [1..2 -> {-1, 0, 1, 2}]]
        \cup UNION {[1..1 -> [1..n -> {0, 1, 2}]] : n \in 1..4}

\* the goal lists: up to MaxGoals distinct cells, in scan order
GoalLists(layout) ==
    {SelectSeq(ScanOrder(layout), LAMBDA c : c \in G) :
        G \in {S \in SUBSET CellsOf(layout) : Cardinality(S) <= MaxGoals}}

\* QMemory.__init__ on a grid, and the arguments of the call to come
InitPath ==
    \E layout \in PathLayouts :
    \E start \in CellsOf(layout), goals \in GoalLists(layout) :
        /\ memory_layout = layout
        /\ memory_storage = InitMemoryStorage(layout)
        /\ coord_to_qid = InitCoordToQid(layout)
        /\ qid_to_coord = <<>>
        /\ last = Call("input", NoQid, -1, <<start, goals>>, "none", <<>>, <<>>, <<>>, <<>>)
        /\ run_state = [pc |-> "api", cyl |-> -1, keys |-> {}, n_ops |-> 0]
        /\ arrival = [q \in Qids |-> -1]
        /\ store_patches = [q \in Qids |-> <<>>]
        /\ operation = NoOperation

\* path_generator.path(start, goals)
PathCall ==
    /\ run_state.n_ops = 0
    /\ \E r \in {bfs_path(memory_layout, last.args[1], last.args[2])} :
           /\ memory_layout' = r.map
           /\ last' = Call("path", NoQid, -1, last.args, r.err, r.path, <<>>, <<>>, <<>>)
    /\ run_state' = [run_state EXCEPT !.n_ops = 1]
    /\ UNCHANGED <<memory_storage, coord_to_qid, qid_to_coord, arrival, store_patches, operation>>

\* generate_path(coord_from, self.outlet_points), as load and store call it:
\* the goals are the outlets
GeneratePathCall ==
    /\ run_state.n_ops = 0
    /\ last.args[2] = outlet_points(memory_layout, memory_storage)
    /\ \E p \in {generate_path(memory_layout, last.args[1], last.args[2])} :
           /\ memory_layout' = p.map
           /\ last' = Call("generate_path", NoQid, -1, last.args, p.err,
                           IF p.err = "none"
                           THEN <<p.from_patch>> \o p.access_hallway_patches
                                    \o <<p.to_patch>>
                           ELSE <<>>,
                           <<>>, <<>>, <<>>)
    /\ run_state' = [run_state EXCEPT !.n_ops = 1]
    /\ UNCHANGED <<memory_storage, coord_to_qid, qid_to_coord, arrival, store_patches, operation>>

NextPath ==
    \/ PathCall
    \/ GeneratePathCall

SpecPath == InitPath /\ [][NextPath]_vars

-----------------------------------------------------------------------------
(* generate_cube_kinds on its own: one call on a position list *)

\* the most positions a list holds
MaxPositions == 4

Origin == <<0, 0, 0>>

\* the steps from one position to the next: the six unit steps, and the
\* steps cube_dynamic rejects or takes for a move (none, diagonal, double)
UnitSteps ==
    {<<1, 0, 0>>, <<-1, 0, 0>>, <<0, 1, 0>>, <<0, -1, 0>>, <<0, 0, 1>>, <<0, 0, -1>>}
OtherSteps == {<<0, 0, 0>>, <<1, 1, 0>>, <<2, 0, 0>>}

\* the position list that starts at Origin and takes the steps in turn
RECURSIVE PositionsFrom(_, _)
PositionsFrom(pos, steps) ==
    IF steps = <<>> THEN <<pos>>
    ELSE <<pos>> \o PositionsFrom(<<pos[1] + Head(steps)[1], pos[2] + Head(steps)[2],
                                   pos[3] + Head(steps)[3]>>, Tail(steps))

PositionLists ==
    {<<>>} \cup
    {PositionsFrom(Origin, steps) :
        steps \in UNION {[1..n -> UnitSteps \cup OtherSteps] : n \in 0..(MaxPositions - 1)}}

\* the arguments of the call to come
InitKinds ==
    \E positions \in PositionLists, initial_kind \in Kinds :
        /\ memory_layout = << <<0>> >>
        /\ memory_storage = InitMemoryStorage(memory_layout)
        /\ coord_to_qid = InitCoordToQid(memory_layout)
        /\ qid_to_coord = <<>>
        /\ last = Call("input", NoQid, -1, <<positions, initial_kind>>, "none", <<>>,
                       <<>>, <<>>, <<>>)
        /\ run_state = [pc |-> "api", cyl |-> -1, keys |-> {}, n_ops |-> 0]
        /\ arrival = [q \in Qids |-> -1]
        /\ store_patches = [q \in Qids |-> <<>>]
        /\ operation = NoOperation

\* generate_cube_kinds(positions, initial_kind)
KindsCall ==
    /\ run_state.n_ops = 0
    /\ \E r \in {generate_cube_kinds(last.args[1], last.args[2])} :
           last' = Call("generate_cube_kinds", NoQid, -1, last.args, r.err, r.kinds,
                        <<>>, <<>>, <<>>)
    /\ run_state' = [run_state EXCEPT !.n_ops = 1]
    /\ UNCHANGED <<memory_layout, memory_storage, coord_to_qid, qid_to_coord, arrival, store_patches, operation>>

NextKinds == KindsCall

SpecKinds == InitKinds /\ [][NextKinds]_vars

-----------------------------------------------------------------------------
(* A YokeOperation built on patches that earlier operations have used *)

\* most Blocks put on the patches before the Yoke is built
MaxYokeCubes == 2

\* two Data cells above two AccessHallway cells
YokeLayout == << <<0, 0>>, <<1, 1>> >>

\* the lists of the cells of one patch type, in scan order
PatchLists(types) ==
    {SelectSeq(ScanOrder(YokeLayout), LAMBDA c : c \in S) :
        S \in SUBSET {c \in CellsOf(YokeLayout) :
                         PatchTypeOf(At(YokeLayout, c)) \in types}}

InitYoke ==
    /\ memory_layout = YokeLayout
    /\ memory_storage = InitMemoryStorage(YokeLayout)
    /\ coord_to_qid = InitCoordToQid(YokeLayout)
    /\ qid_to_coord = <<>>
    /\ last = NoCall
    /\ run_state = [pc |-> "api", cyl |-> -1, keys |-> {}, n_ops |-> 0]
    /\ arrival = [q \in Qids |-> -1]
    /\ store_patches = [q \in Qids |-> <<>>]
    /\ operation = NoOperation

\* patch.add_a_cube(cycle) on one of the patches
YokeAddCube(coord, cycle) ==
    /\ run_state.n_ops < MaxYokeCubes
    /\ \E r \in {add_a_cube(memory_storage[coord], cycle, NoKind)} :
           /\ memory_storage' = [memory_storage EXCEPT ![coord] = r.patch]
           /\ last' = Call("add_a_cube", NoQid, cycle, <<coord>>, r.err, <<>>,
                           <<>>, <<>>, <<>>)
    /\ run_state' = [run_state EXCEPT !.n_ops = @ + 1]
    /\ UNCHANGED <<memory_layout, coord_to_qid, qid_to_coord, arrival, store_patches, operation>>

\* YokeOperation(target_patches, access_hallway_patches, cycle, op_type)
YokeCreate(target_patches, access_hallway_patches, cycle) ==
    /\ last' = Call("YokeOperation", NoQid, cycle,
                    <<target_patches, access_hallway_patches>>, "none",
                    yoke_init(memory_storage, target_patches, access_hallway_patches, cycle),
                    <<>>, <<>>, <<>>)
    /\ UNCHANGED <<memory_layout, memory_storage, coord_to_qid, qid_to_coord,
                   run_state, arrival, store_patches, operation>>

NextYoke ==
    \/ \E coord \in CellsOf(YokeLayout), cycle \in 0..MaxReqCycle : YokeAddCube(coord, cycle)
    \/ \E target_patches \in PatchLists({"D"}) \ {<<>>},
          access_hallway_patches \in PatchLists({"A"}),
          cycle \in 0..MaxReqCycle :
           YokeCreate(target_patches, access_hallway_patches, cycle)

SpecYoke == InitYoke /\ [][NextYoke]_vars

-----------------------------------------------------------------------------
(* YokeOperation.run on patches that hold Blocks of earlier operations *)

\* most Blocks a patch holds before the Yoke is built
MaxYokeHeight == 2

\* most run() and to_tqec_pipes() calls made on one Operation object
MaxOperationCalls == 2

\* a timeline holding Blocks of the given kinds at cycles 0, 1, ...
PatchWithKinds(patch_type, kinds) ==
    [patch_type |-> patch_type,
     cycle_layer |-> [c \in Cycles |-> IF c < Len(kinds) THEN CubeSlot(kinds[c + 1])
                                       ELSE EmptySlot],
     current_occupied_cycle |-> Len(kinds) - 1]

\* the sequences of at most MaxYokeHeight kinds
KindLists == UNION {[1..n -> PatchKinds \ {NoKind}] : n \in 0..MaxYokeHeight}

\* the kinds of the Blocks earlier Moves and Idles left on an access-line
\* patch are not read by a Yoke
DefaultKindLists == {[i \in 1..n |-> DefaultKind] : n \in 0..MaxYokeHeight}

InitYokeRun ==
    /\ memory_layout = YokeLayout
    /\ \E kinds \in [CellsOf(YokeLayout) -> KindLists] :
           /\ \A c \in CellsOf(YokeLayout) :
                  PatchTypeOf(At(YokeLayout, c)) = "A" => kinds[c] \in DefaultKindLists
           /\ memory_storage = [c \in CellsOf(YokeLayout) |->
                                   PatchWithKinds(PatchTypeOf(At(YokeLayout, c)), kinds[c])]
    /\ coord_to_qid = InitCoordToQid(YokeLayout)
    /\ qid_to_coord = <<>>
    /\ last = NoCall
    /\ run_state = [pc |-> "api", cyl |-> -1, keys |-> {}, n_ops |-> 0]
    /\ arrival = [q \in Qids |-> -1]
    /\ store_patches = [q \in Qids |-> <<>>]
    /\ operation = NoOperation

\* operation = YokeOperation(target_patches, access_hallway_patches, cycle, op_type)
NewYoke(target_patches, access_hallway_patches, cycle, op_type) ==
    /\ operation = NoOperation
    /\ \E T \in {yoke_init(memory_storage, target_patches, access_hallway_patches, cycle)} :
           /\ operation' = [type |-> "Yoke", patches |-> target_patches,
                            access_hallway_patches |-> access_hallway_patches,
                            cycle |-> T, op_type |-> op_type, has_pipes |-> TRUE,
                            positions |-> <<>>, pipes |-> <<>>, calls |-> <<>>]
           /\ last' = Call("YokeOperation", NoQid, cycle,
                           <<target_patches, access_hallway_patches>>, "none", T,
                           <<>>, <<>>, <<>>)
    /\ UNCHANGED <<memory_layout, memory_storage, coord_to_qid, qid_to_coord,
                   run_state, arrival, store_patches>>

\* what operation.run() leaves behind: the patches, the operation's lists,
\* and the record of the call
OperationRan(op_name, o) ==
    /\ memory_storage' = o.storage
    /\ operation' = [operation EXCEPT !.positions = o.positions, !.pipes = o.pipes,
                                      !.calls = Append(@, "run")]
    /\ last' = Call(op_name, NoQid, operation.cycle, <<>>, o.err, <<>>,
                    operation.patches \o operation.access_hallway_patches,
                    o.positions, o.pipes)
    /\ run_state' = [run_state EXCEPT !.n_ops = @ + 1]
    /\ UNCHANGED <<memory_layout, coord_to_qid, qid_to_coord, arrival, store_patches>>

\* operation.run() on the YokeOperation
YokeRun ==
    /\ operation.type = "Yoke"
    /\ run_state.n_ops < MaxOperationCalls
    /\ \E ck \in {yoke_cube_kinds(memory_storage, operation.patches, 1, operation.cycle)} :
           IF ck.err # "none"
           THEN OperationRan("YokeOperation.run",
                             MoveResult(ck.err, memory_storage, operation.positions,
                                        operation.pipes))
           ELSE IF ck.kinds = <<>>
           THEN OperationRan("YokeOperation.run",
                             MoveResult("ValueError", memory_storage, operation.positions,
                                        operation.pipes))
           ELSE \E majority_kind \in majority_kinds(ck.kinds) :
                    \E o \in {yoke_run(memory_storage, operation, majority_kind)} :
                        OperationRan("YokeOperation.run", o)

YokeOpTypes == {"YOKE_ROW", "YOKE_COL"}

NextYokeRun ==
    \/ \E target_patches \in PatchLists({"D"}) \ {<<>>},
          access_hallway_patches \in PatchLists({"A"}),
          cycle \in 0..(MaxYokeHeight + 1), op_type \in YokeOpTypes :
           NewYoke(target_patches, access_hallway_patches, cycle, op_type)
    \/ YokeRun

SpecYokeRun == InitYokeRun /\ [][NextYokeRun]_vars

-----------------------------------------------------------------------------
(* run() and to_tqec_pipes() called on one Operation object *)

InitOperation ==
    /\ memory_layout = YokeLayout
    /\ \E kinds \in [CellsOf(YokeLayout) -> DefaultKindLists] :
           memory_storage = [c \in CellsOf(YokeLayout) |->
                                PatchWithKinds(PatchTypeOf(At(YokeLayout, c)), kinds[c])]
    /\ coord_to_qid = InitCoordToQid(YokeLayout)
    /\ qid_to_coord = <<>>
    /\ last = NoCall
    /\ run_state = [pc |-> "api", cyl |-> -1, keys |-> {}, n_ops |-> 0]
    /\ arrival = [q \in Qids |-> -1]
    /\ store_patches = [q \in Qids |-> <<>>]
    /\ operation = NoOperation

\* operation = MoveOperation(from_patch, access_hallway_patches, to_patch,
\* cycle): __init__ does not call Operation.__init__, so the object has no
\* positions and no pipes attribute until run sets them
NewMove(from_patch, access_hallway_patches, to_patch, cycle) ==
    /\ operation = NoOperation
    /\ operation' = [NoOperation EXCEPT !.type = "Move",
                        !.patches = <<from_patch>> \o access_hallway_patches
                                        \o <<to_patch>>,
                        !.access_hallway_patches = access_hallway_patches,
                        !.cycle = cycle, !.has_pipes = FALSE]
    /\ last' = Call("MoveOperation", NoQid, cycle, <<>>, "none", <<>>,
                    <<from_patch>> \o access_hallway_patches \o <<to_patch>>,
                    <<>>, <<>>)
    /\ UNCHANGED <<memory_layout, memory_storage, coord_to_qid, qid_to_coord,
                   run_state, arrival, store_patches>>

\* operation = IdleOperation(idling_patch, cycle)
NewIdle(idling_patch, cycle) ==
    /\ operation = NoOperation
    /\ operation' = [NoOperation EXCEPT !.type = "Idle", !.patches = <<idling_patch>>,
                                        !.cycle = cycle, !.has_pipes = TRUE]
    /\ last' = Call("IdleOperation", NoQid, cycle, <<>>, "none", <<>>,
                    <<idling_patch>>, <<>>, <<>>)
    /\ UNCHANGED <<memory_layout, memory_storage, coord_to_qid, qid_to_coord,
                   run_state, arrival, store_patches>>

\* what a call on the operation leaves behind
OperationCalled(op_name, err, storage, op, ret) ==
    /\ memory_storage' = storage
    /\ operation' = [op EXCEPT !.calls = Append(@, op_name)]
    /\ last' = Call(op_name, NoQid, operation.cycle, <<>>, err, ret,
                    operation.patches, op.positions, op.pipes)
    /\ run_state' = [run_state EXCEPT !.n_ops = @ + 1]
    /\ UNCHANGED <<memory_layout, coord_to_qid, qid_to_coord, arrival, store_patches>>

\* MoveOperation.run() on the object: self.positions and self.pipes are
\* assigned at the end of a run that completes
move_run(storage, op) ==
    Eval(MoveRun(storage, op.patches, op.cycle), LAMBDA m :
        [err |-> m.err, storage |-> m.storage,
         op |-> IF m.err = "none"
                THEN [op EXCEPT !.has_pipes = TRUE, !.positions = m.positions,
                                !.pipes = m.pipes]
                ELSE op])

\* IdleOperation.run() on the object: a busy patch leaves its lists empty
idle_run(storage, op) ==
    Eval(IdleRun(storage, op.patches[1], op.cycle), LAMBDA m :
        [err |-> m.err, storage |-> m.storage,
         op |-> IF m.err = "none" /\ m.positions # <<>>
                THEN [op EXCEPT !.positions = m.positions, !.pipes = m.pipes]
                ELSE op])

\* operation.run() on a MoveOperation or an IdleOperation
OperationRun ==
    /\ operation.type \in {"Move", "Idle"}
    /\ run_state.n_ops < MaxOperationCalls
    /\ \E r \in {IF operation.type = "Move" THEN move_run(memory_storage, operation)
                                           ELSE idle_run(memory_storage, operation)} :
           OperationCalled("run", r.err, r.storage, r.op, r.op.positions)

\* to_tqec_pipes() of MoveOperation and IdleOperation
\*   if not self.pipes or len(self.pipes) == 0: self.run()
\*   return self.pipes
\* and of YokeOperation, which returns self.pipes
to_tqec_pipes(storage, op) ==
    IF op.type = "Yoke" THEN [err |-> "none", storage |-> storage, op |-> op]
    ELSE IF ~op.has_pipes THEN [err |-> "AttributeError", storage |-> storage, op |-> op]
    ELSE IF op.pipes # <<>> THEN [err |-> "none", storage |-> storage, op |-> op]
    ELSE IF op.type = "Move" THEN move_run(storage, op)
    ELSE idle_run(storage, op)

\* operation.to_tqec_pipes()
OperationToTqecPipes ==
    /\ operation.type # "none"
    /\ run_state.n_ops < MaxOperationCalls
    /\ \E r \in {to_tqec_pipes(memory_storage, operation)} :
           OperationCalled("to_tqec_pipes", r.err, r.storage, r.op,
                           IF r.err = "none" THEN r.op.pipes ELSE <<>>)

\* the chains of a MoveOperation on the layout: a Data cell, the access-line
\* cell below it and the other access-line cell
MoveChains ==
    { << <<0, 0>>, << <<0, 1>> >>, <<1, 1>> >>,
      << <<1, 0>>, << <<1, 1>> >>, <<0, 1>> >> }

NextOperation ==
    \/ \E chain \in MoveChains, cycle \in 0..MaxYokeHeight :
           NewMove(chain[1], chain[2], chain[3], cycle)
    \/ \E idling_patch \in CellsOf(YokeLayout), cycle \in 0..MaxYokeHeight :
           NewIdle(idling_patch, cycle)
    \/ \E target_patches \in PatchLists({"D"}) \ {<<>>},
          access_hallway_patches \in PatchLists({"A"}) \ {<<>>},
          cycle \in 0..MaxYokeHeight, op_type \in YokeOpTypes :
           NewYoke(target_patches, access_hallway_patches, cycle, op_type)
    \/ OperationRun
    \/ YokeRun
    \/ OperationToTqecPipes

SpecOperation == InitOperation /\ [][NextOperation]_vars

-----------------------------------------------------------------------------
(* Properties *)

HasCube(coord, cycle) == memory_storage[coord].cycle_layer[cycle].cube
IsResident(q_id) == DictHas(qid_to_coord, q_id) /\ DictGet(qid_to_coord, q_id) # NoCoord
SetMax(S) == CHOOSE m \in S : \A n \in S : n <= m
SetMin(S) == CHOOSE m \in S : \A n \in S : m <= n

\* the number of cycles a finished run covered: its largest cycle number + 1
RunCycles == SetMax(run_state.keys) + 1

\* C1: when run has finished, the Data patch of every resident qubit holds a
\* Block at every cycle from the qubit's first Block on it up to cycle N-1
C1_ResidentTimelineContiguous ==
    (run_state.pc = "done" /\ run_state.keys # {}) =>
        \A q_id \in Qids :
            (IsResident(q_id) /\ arrival[q_id] >= 0) =>
                \A c \in arrival[q_id]..(RunCycles - 1) :
                    HasCube(DictGet(qid_to_coord, q_id), c)

\* C2: after a Load of a qubit that a Store had placed, the qubit's Data cell
\* holds a Block at every cycle between the Store's last Block on the cell
\* (the cycle after its arrival) and the Load's first Block on it
C2_StoreToLoadIdleFilled ==
    (last.op = "LOAD" /\ last.err = "none" /\ arrival[last.q_id] >= 0) =>
        \A c \in (arrival[last.q_id] + 1)..last.positions[1][3] :
            HasCube(<<last.positions[1][1], last.positions[1][2]>>, c)

\* C3: add_a_cube(c) on a patch holding a Block at c raises the conflict
\* error and leaves the timeline and current_occupied_cycle as they were; on a
\* free slot it stores one Block at c, changes no other slot, and sets
\* current_occupied_cycle to max(current_occupied_cycle, c)
C3_AddACube ==
    [][ last'.op = "add_a_cube" =>
           LET before == memory_storage[ThePatch]
               after == memory_storage'[ThePatch]
               c == last'.cyl
           IN  IF before.cycle_layer[c].cube
               THEN last'.err = "ValueError" /\ after = before
               ELSE /\ last'.err = "none"
                    /\ after.cycle_layer[c] = CubeSlot(last'.args[1])
                    /\ \A d \in Cycles \ {c} : after.cycle_layer[d] = before.cycle_layer[d]
                    /\ after.current_occupied_cycle
                           = Max(before.current_occupied_cycle, c) ]_vars

\* a conflict was raised below the highest occupied cycle
C3_Witness ==
    /\ last.op = "add_a_cube" /\ last.err = "ValueError"
    /\ memory_storage[ThePatch].cycle_layer[last.cyl].cube
    /\ memory_storage[ThePatch].current_occupied_cycle > last.cyl

\* C4: the qubit map is a bijection: no qubit id is held by two coordinates,
\* and coord_to_qid[c] = q exactly when qid_to_coord[q] = c
C4_QubitMapBijection ==
    /\ \A c1, c2 \in DOMAIN coord_to_qid :
           (coord_to_qid[c1] # NoQid /\ coord_to_qid[c1] = coord_to_qid[c2]) => c1 = c2
    /\ \A c \in DOMAIN coord_to_qid, q_id \in Qids :
           (coord_to_qid[c] = q_id) <=>
               (DictHas(qid_to_coord, q_id) /\ DictGet(qid_to_coord, q_id) = c)

\* the qubit-map entries of every qubit id other than q_id, and of every
\* coordinate other than coord, are the same before and after a step
OthersUnchanged(q_id, coord) ==
    /\ \A q \in Qids \ {q_id} :
           /\ DictHas(qid_to_coord', q) = DictHas(qid_to_coord, q)
           /\ DictHas(qid_to_coord, q) =>
                  DictGet(qid_to_coord', q) = DictGet(qid_to_coord, q)
    /\ DOMAIN coord_to_qid' = DOMAIN coord_to_qid
    /\ \A c \in DOMAIN coord_to_qid \ {coord} : coord_to_qid'[c] = coord_to_qid[c]

\* C5: a Store puts q on a Data cell that was free and a later Load of q
\* takes it off again: after the Load q is not in get_in_memory_qids(), the
\* cell it occupied is free, and no other qubit's mapping has changed
C5_StoreLoadRoundTrip ==
    [][ /\ (last'.op = "STORE" /\ last'.err = "none") =>
               /\ DictHas(qid_to_coord', last'.q_id)
               /\ DictGet(qid_to_coord', last'.q_id) # NoCoord
               /\ coord_to_qid[DictGet(qid_to_coord', last'.q_id)] = NoQid
               /\ coord_to_qid'[DictGet(qid_to_coord', last'.q_id)] = last'.q_id
               /\ OthersUnchanged(last'.q_id, DictGet(qid_to_coord', last'.q_id))
        /\ (last'.op = "LOAD" /\ IsResident(last'.q_id)) =>
               /\ ~InSeq(last'.q_id, get_in_memory_qids(qid_to_coord'))
               /\ coord_to_qid'[DictGet(qid_to_coord, last'.q_id)] = NoQid
               /\ OthersUnchanged(last'.q_id, DictGet(qid_to_coord, last'.q_id)) ]_vars

\* a Load completed for a qubit that a Store had placed, with another qubit
\* still in memory
C5_Witness ==
    /\ last.op = "LOAD" /\ last.err = "none"
    /\ arrival[last.q_id] >= 0
    /\ \E q \in Qids \ {last.q_id} : IsResident(q)

DataCells == {c \in DOMAIN memory_storage : memory_storage[c].patch_type = "D"}

\* C6: the map slots are exactly the cells of value 0, every mapped qubit
\* sits on a Data cell, and no Wall, AccessHallway or Outlet cell holds one
C6_MapSlotsAreDataCells ==
    /\ DOMAIN coord_to_qid = {c \in CellsOf(memory_layout) : At(memory_layout, c) = 0}
    /\ DOMAIN coord_to_qid = DataCells
    /\ \A q_id \in Qids : IsResident(q_id) => DictGet(qid_to_coord, q_id) \in DataCells
    /\ \A c \in DOMAIN memory_storage :
           memory_storage[c].patch_type \in {"W", "A", "O"} => c \notin DOMAIN coord_to_qid

\* every qubit id is mapped, on a layout that has cells of every other type
C6_Witness ==
    /\ \A q_id \in Qids : IsResident(q_id)
    /\ \A t \in {"W", "A", "O"} : \E c \in DOMAIN memory_storage : memory_storage[c].patch_type = t

\* c comes before d in row-major order
RowMajorBefore(c, d) == c[2] < d[2] \/ (c[2] = d[2] /\ c[1] < d[1])

\* C7: map(q) assigns q to the first Data cell in row-major order that holds
\* no qubit and returns it; when every Data cell holds a qubit it raises and
\* leaves the qubit map unchanged
C7_MapFirstFree ==
    [][ last'.op = "map" =>
           LET free == {c \in DOMAIN coord_to_qid : coord_to_qid[c] = NoQid}
           IN  IF free = {}
               THEN /\ last'.err = "ValueError"
                    /\ coord_to_qid' = coord_to_qid
                    /\ qid_to_coord' = qid_to_coord
               ELSE /\ last'.err = "none"
                    /\ last'.ret \in free
                    /\ \A d \in free \ {last'.ret} : RowMajorBefore(last'.ret, d)
                    /\ coord_to_qid' = [coord_to_qid EXCEPT ![last'.ret] = last'.q_id]
                    /\ DictGet(qid_to_coord', last'.q_id) = last'.ret
                    /\ \A q \in Qids \ {last'.q_id} :
                           /\ DictHas(qid_to_coord', q) = DictHas(qid_to_coord, q)
                           /\ DictHas(qid_to_coord, q) =>
                                  DictGet(qid_to_coord', q) = DictGet(qid_to_coord, q) ]_vars

\* map returned a cell after skipping an occupied one that comes before it
C7_Witness ==
    /\ last.op = "map" /\ last.err = "none"
    /\ \E c \in DOMAIN coord_to_qid :
           RowMajorBefore(c, last.ret) /\ coord_to_qid[c] # NoQid


Neighbours4(c) ==
    {<<c[1] + 1, c[2]>>, <<c[1] - 1, c[2]>>, <<c[1], c[2] + 1>>, <<c[1], c[2] - 1>>}

\* the least k with a cell of G among the cells within k hops of the cells
\* in within, moving through W only; -1 when no cell of G can be reached
RECURSIVE HopsFrom(_, _, _, _)
HopsFrom(W, G, within, k) ==
    Eval(within, LAMBDA S :
        IF S \cap G # {} THEN k
        ELSE Eval(S \cup {c \in W : \E d \in S : c \in Neighbours4(d)}, LAMBDA next :
                 IF next = S THEN -1 ELSE HopsFrom(W, G, next, k + 1)))

MinHops(W, start, G) == HopsFrom(W, G, {start}, 0)

SeqToSet(seq) == {seq[i] : i \in 1..Len(seq)}

\* path begins at start, ends in G, moves between 4-adjacent cells of W
IsRoute(path, W, start, G) ==
    /\ Len(path) >= 1
    /\ path[1] = start
    /\ path[Len(path)] \in G
    /\ \A i \in 1..Len(path) : path[i] \in W
    /\ \A i \in 1..(Len(path) - 1) : path[i + 1] \in Neighbours4(path[i])

NonWallCells(map) == {c \in CellsOf(map) : At(map, c) >= 0}
PositiveCells(map) == {c \in CellsOf(map) : At(map, c) > 0}

IsUnitStep(p, q) == Abs(q[1] - p[1]) + Abs(q[2] - p[2]) + Abs(q[3] - p[3]) = 1
StepAxis(p, q) == CHOOSE j \in 1..3 : p[j] # q[j]
OtherBasis(b) == CHOOSE c \in Bases : c # b

ExamplePositions == <<Origin, <<1, 0, 0>>, <<2, 0, 0>>, <<2, 1, 0>>>>
ExampleKinds ==
    << <<"X", "Z", "X">>, <<"X", "Z", "X">>, <<"Z", "Z", "X">>, <<"Z", "Z", "X">> >>

\* C10: for n >= 1 positions, each one unit step from the one before, and an
\* initial kind k0, generate_cube_kinds returns n kinds; the first is k0; kind
\* i is kind i-1 except in the component of the axis of the step into
\* position i, which is kept when the step out of position i is along the same
\* axis (or there is none) and otherwise is the flip of kind i-1's component
\* of the third axis; steps X, X, Y from (X,Z,X) give (X,Z,X), (X,Z,X),
\* (Z,Z,X), (Z,Z,X)
C10_KindPropagation ==
    last.op = "generate_cube_kinds" =>
        LET p == last.args[1]
            n == Len(p)
            k == last.ret
        IN  /\ (n >= 1 /\ \A i \in 1..(n - 1) : IsUnitStep(p[i], p[i + 1])) =>
                   /\ last.err = "none"
                   /\ Len(k) = n
                   /\ k[1] = last.args[2]
                   /\ \A i \in 2..n :
                          LET a1 == StepAxis(p[i - 1], p[i])
                              a2 == IF i < n THEN StepAxis(p[i], p[i + 1]) ELSE a1
                          IN  \A j \in 1..3 :
                                  k[i][j] = IF j # a1 \/ a1 = a2 THEN k[i - 1][j]
                                            ELSE OtherBasis(k[i - 1][6 - a1 - a2])
            /\ (p = ExamplePositions /\ last.args[2] = DefaultKind) => k = ExampleKinds

\* the worked example was computed
C10_Witness ==
    /\ last.op = "generate_cube_kinds" /\ last.err = "none"
    /\ last.args = <<ExamplePositions, DefaultKind>>
    /\ last.ret = ExampleKinds


\* C11: generate_cube_kinds raises for every position list in which some
\* consecutive pair is not one unit apart along one axis: no movement, a
\* diagonal step, or more than one unit along an axis
C11_NonUnitStepFails ==
    (last.op = "generate_cube_kinds"
        /\ \E i \in 1..(Len(last.args[1]) - 1) :
               ~IsUnitStep(last.args[1][i], last.args[1][i + 1]))
        => last.err # "none"


\* the boundary type of the Block at a position
KindAtPos(pos) == memory_storage[<<pos[1], pos[2]>>].cycle_layer[pos[3]].kind

IsMove == last.op \in {"LOAD", "STORE"} /\ last.err = "none"

\* the patches of the last operation lie in one row or in one column
ChainIsStraight ==
    \/ \A i \in 1..Len(last.patches) : last.patches[i][2] = last.patches[1][2]
    \/ \A i \in 1..Len(last.patches) : last.patches[i][1] = last.patches[1][1]

\* C12 as stated: every Block of a Move whose patches lie in one row or one
\* column carries the same boundary type
C12_StraightMoveKeepsKind ==
    (IsMove /\ ChainIsStraight) =>
        \A i \in 1..Len(last.positions) :
            KindAtPos(last.positions[i]) = KindAtPos(last.positions[1])

\* C12 amended: in every Move a Block carries the boundary type of the Block
\* emitted before it whenever the step into it and the step out of it are
\* along the same axis, or it is the last Block; the type may change where
\* the emitted path turns, also between a time step and a spatial step. A
\* Move along one row whose first Block has type X,Z,X keeps X,Z,X throughout
C12_KindChangesOnlyAtCorners ==
    IsMove =>
        LET p == last.positions
            n == Len(p)
        IN  /\ \A i \in 2..n :
                   LET a1 == StepAxis(p[i - 1], p[i])
                       a2 == IF i < n THEN StepAxis(p[i], p[i + 1]) ELSE a1
                   IN  a1 = a2 => KindAtPos(p[i]) = KindAtPos(p[i - 1])
            /\ ( /\ \A i \in 1..Len(last.patches) : last.patches[i][2] = last.patches[1][2]
                 /\ KindAtPos(p[1]) = DefaultKind ) =>
                   \A i \in 1..n : KindAtPos(p[i]) = DefaultKind

\* a Move went straight on through a hallway Block: two spatial steps along
\* the same axis in a row
C12_Witness ==
    /\ IsMove
    /\ \E i \in 2..(Len(last.positions) - 1) :
           /\ StepAxis(last.positions[i - 1], last.positions[i]) # 3
           /\ StepAxis(last.positions[i - 1], last.positions[i])
                  = StepAxis(last.positions[i], last.positions[i + 1])


\* C13: the cycle T a Yoke requested at c is scheduled at is the largest
\* next_available_cycle(c) of its target and access-line patches; so T is at
\* least the next_available_cycle(c) of each of them, and each is free at T
C13_YokeBarrier ==
    last.op = "YokeOperation" =>
        LET participants == SeqToSet(last.args[1]) \cup SeqToSet(last.args[2])
            nac(coord) == IF memory_storage[coord].current_occupied_cycle + 1 > last.cyl
                          THEN memory_storage[coord].current_occupied_cycle + 1
                          ELSE last.cyl
            T == last.ret
        IN  /\ \E coord \in participants : T = nac(coord)
            /\ \A coord \in participants :
                   /\ T >= nac(coord)
                   /\ T \in Cycles => ~HasCube(coord, T)
                   /\ \A c \in Cycles : HasCube(coord, c) => c < T

\* the Yoke was put off beyond the requested cycle by an access-line patch,
\* while a target patch was free earlier
C13_Witness ==
    /\ last.op = "YokeOperation"
    /\ last.ret > last.cyl
    /\ \E h \in SeqToSet(last.args[2]) :
           last.ret = memory_storage[h].current_occupied_cycle + 1
    /\ \E t \in SeqToSet(last.args[1]) :
           memory_storage[t].current_occupied_cycle + 1 < last.ret


\* the cycles of the patch that hold a Block
OccupiedCycles(coord) == {c \in Cycles : HasCube(coord, c)}

\* the type of the latest Block strictly before cycle c, X,Z,X if there is none
LatestEarlierKind(coord, c) ==
    LET earlier == {d \in OccupiedCycles(coord) : d < c}
    IN  IF earlier = {} THEN DefaultKind
        ELSE memory_storage[coord].cycle_layer[SetMax(earlier)].kind

\* C14: get_cube_kind(c) at a cycle c that holds a Block returns the boundary
\* type stored in that Block
C14_OccupiedCycleReadsOwnKind ==
    (last.op = "get_cube_kind" /\ HasCube(ThePatch, last.cyl))
        => /\ last.err = "none"
           /\ last.ret = memory_storage[ThePatch].cycle_layer[last.cyl].kind

\* C15: get_cube_kind(c) at a cycle c that holds no Block does not fail; it
\* returns the type of the latest earlier Block, X,Z,X if there is none
C15_EmptyCycleReadsEarlierKind ==
    (last.op = "get_cube_kind" /\ ~HasCube(ThePatch, last.cyl))
        => /\ last.err = "none"
           /\ last.ret = LatestEarlierKind(ThePatch, last.cyl)

\* C16: current_occupied_cycle is -1 on a patch without Blocks and the largest
\* occupied cycle otherwise, and it never decreases; next_available_cycle(c)
\* is max(c, current_occupied_cycle + 1), and the patch holds no Block at that
\* cycle or at any later one
C16_CurrentOccupiedCycle ==
    /\ [](LET patch == memory_storage[ThePatch]
              occupied == OccupiedCycles(ThePatch)
          IN  /\ patch.current_occupied_cycle
                     = IF occupied = {} THEN -1 ELSE SetMax(occupied)
              /\ \A c \in Cycles :
                     /\ next_available_cycle(patch, c) >= c
                     /\ next_available_cycle(patch, c) >= patch.current_occupied_cycle + 1
                     /\ next_available_cycle(patch, c)
                            \in {c, patch.current_occupied_cycle + 1}
                     /\ \A d \in Cycles :
                            d >= next_available_cycle(patch, c) => ~HasCube(ThePatch, d))
    /\ [][memory_storage'[ThePatch].current_occupied_cycle
              >= memory_storage[ThePatch].current_occupied_cycle]_vars

\* a Block was added below the highest occupied cycle, with a free cycle between
C16_Witness ==
    /\ last.op = "add_a_cube" /\ last.err = "none"
    /\ memory_storage[ThePatch].current_occupied_cycle > last.cyl + 1
    /\ ~HasCube(ThePatch, last.cyl + 1)


\* C17: an Idle requested at cycle c on a patch whose current_occupied_cycle
\* is below c adds exactly one Block, at c, on that patch only, with the type
\* of the patch's latest earlier Block (X,Z,X if there is none); on a patch
\* occupied at c or later it raises nothing and changes no timeline
C17_IdleAddsOneBlock ==
    [][ last'.op = "IdleOperation" =>
           LET before == memory_storage[ThePatch]
               after == memory_storage'[ThePatch]
               c == last'.cyl
           IN  /\ last'.err = "none"
               /\ \A coord \in DOMAIN memory_storage \ {ThePatch} :
                      memory_storage'[coord] = memory_storage[coord]
               /\ IF before.current_occupied_cycle < c
                  THEN /\ after.cycle_layer[c] = CubeSlot(LatestEarlierKind(ThePatch, c))
                       /\ \A d \in Cycles \ {c} :
                              after.cycle_layer[d] = before.cycle_layer[d]
                  ELSE after = before ]_vars


\* the Blocks of the patch at coord that the last instruction did not place
EarlierBlocks(coord) ==
    {c \in OccupiedCycles(coord) : ~InSeq(Position3D(coord, c), last.positions)}

\* C18: instructions are applied one after the other in the order listed, and
\* the earlier one wins a shared patch: every Block an instruction places on a
\* patch is at a strictly later cycle than every Block the patch already held,
\* so than every Block an earlier-listed instruction of the cycle placed there
C18_EarlierInstructionWins ==
    [][ \A coord \in DOMAIN memory_storage : \A c \in Cycles :
            (memory_storage'[coord].cycle_layer[c].cube /\ ~HasCube(coord, c))
                => \A d \in OccupiedCycles(coord) : d < c ]_vars

\* the second or third instruction listed under the only cycle so far placed
\* a Block on a patch that an earlier instruction of that cycle had used, and
\* was delayed beyond the cycle it was listed under
C18_Witness ==
    /\ IsMove
    /\ run_state.pc = "ops"
    /\ Cardinality(run_state.keys) = 1
    /\ run_state.n_ops >= 2
    /\ \E i \in 1..Len(last.positions) :
           LET coord == <<last.positions[i][1], last.positions[i][2]>>
           IN  /\ EarlierBlocks(coord) # {}
               /\ \A d \in EarlierBlocks(coord) : d < last.positions[i][3]
               /\ last.positions[i][3] > last.cyl + 1


\* C19: an instruction that fails (a Load of a qubit that is not mapped, a
\* Store with no free Data cell, a Move without a path) is reported for that
\* instruction alone: run goes on with the remaining instructions
C19_FailureDoesNotAbortRun ==
    (last.op \in {"LOAD", "STORE"} /\ last.err # "none") => run_state.pc = "ops"


\* the smallest cycle T >= a at which the patch answers next_available_cycle(T) = T
FirstFreeFrom(patch, a) ==
    SetMin({T \in a..(MaxCycles + 1) : next_available_cycle(patch, T) = T})

\* the cursor cycle with which a Move of the chain patches, requested at cyl
\* on the timelines of storage, reaches patches[i]
RECURSIVE CursorOnReaching(_, _, _, _)
CursorOnReaching(storage, patches, cyl, i) ==
    IF i = 1
    THEN IF storage[patches[1]].patch_type = "O"
         THEN next_available_cycle(storage[patches[1]], cyl) + 1
         ELSE next_available_cycle(storage[patches[1]], cyl)
    ELSE FirstFreeFrom(storage[patches[i]],
                       CursorOnReaching(storage, patches, cyl, i - 1))

\* the cycles of the Blocks the last instruction placed on the patch at coord
PlacedCycles(positions, coord) ==
    {positions[k][3] : k \in {j \in 1..Len(positions) :
                                  <<positions[j][1], positions[j][2]>> = coord}}

\* C20: back-pressure in a Move: for every hop cur -> next, with a the cursor
\* cycle on reaching cur and T the smallest cycle >= a at which
\* next.next_available_cycle(T) = T, the Move places Blocks on cur at every
\* cycle from a through T and its first Block on next at T, later than every
\* cycle next held a Block at before; no Block of the Move meets an occupied
\* cycle
C20_BackPressure ==
    [][ /\ (last'.op \in {"LOAD", "STORE"} /\ last'.patches # <<>>)
               => last'.err # "ValueError"
        /\ (last'.op \in {"LOAD", "STORE"} /\ last'.err = "none") =>
           \A i \in 1..(Len(last'.patches) - 1) :
               LET cur == last'.patches[i]
                   next == last'.patches[i + 1]
                   a == CursorOnReaching(memory_storage, last'.patches, last'.cyl, i)
                   T == FirstFreeFrom(memory_storage[next], a)
               IN  /\ \A c \in a..T :
                          /\ c \in PlacedCycles(last'.positions, cur)
                          /\ memory_storage'[cur].cycle_layer[c].cube
                   /\ SetMin(PlacedCycles(last'.positions, next)) = T
                   /\ \A d \in OccupiedCycles(next) : d < T ]_vars

\* a Move waited on a patch in the middle of its chain: it holds Blocks of the
\* Move at two consecutive cycles, the next patch only from the second one on
C20_Witness ==
    /\ IsMove
    /\ \E i \in 2..(Len(last.patches) - 1) : \E c \in Cycles :
           /\ {c, c + 1} \subseteq PlacedCycles(last.positions, last.patches[i])
           /\ \A d \in PlacedCycles(last.positions, last.patches[i + 1]) : d > c


\* C21: every Move runs to its end: on each hop cur -> next the stall loop
\* makes exactly max(0, next.current_occupied_cycle + 1 - cursor) iterations,
\* one Block on cur each, before the Block that closes the hop, and the Move
\* then reaches its last patch
C21_StallIterations ==
    [][ (last'.op \in {"LOAD", "STORE"} /\ last'.patches # <<>>) =>
           /\ last'.err = "none"
           /\ PlacedCycles(last'.positions, last'.patches[Len(last'.patches)]) # {}
           /\ \A i \in 1..(Len(last'.patches) - 1) :
                  LET cur == last'.patches[i]
                      next == last'.patches[i + 1]
                      a == CursorOnReaching(memory_storage, last'.patches, last'.cyl, i)
                      stalls == Max(0, memory_storage[next].current_occupied_cycle + 1 - a)
                      first == IF i = 1 /\ memory_storage[cur].patch_type = "O" THEN 1 ELSE 0
                  IN  Cardinality({k \in 1..Len(last'.positions) :
                                      <<last'.positions[k][1], last'.positions[k][2]>> = cur})
                          = first + stalls + 1 ]_vars

\* a Move waited two cycles or more on a patch in the middle of its chain
C21_Witness ==
    /\ IsMove
    /\ \E i \in 2..(Len(last.patches) - 1) :
           Cardinality(PlacedCycles(last.positions, last.patches[i])) >= 3

\* C22: a completed Move leaves on its last patch exactly two Blocks of its
\* own, at the final cursor cycle T and at T + 1, as the last two positions it
\* emits, and the last patch's current_occupied_cycle is T + 1 afterwards
C22_ArrivalAndSettle ==
    [][ (last'.op \in {"LOAD", "STORE"} /\ last'.err = "none") =>
           LET n == Len(last'.patches)
               m == Len(last'.positions)
               last_patch == last'.patches[n]
               T == CursorOnReaching(memory_storage, last'.patches, last'.cyl, n)
           IN  /\ PlacedCycles(last'.positions, last_patch) = {T, T + 1}
               /\ last'.positions[m - 1] = Position3D(last_patch, T)
               /\ last'.positions[m] = Position3D(last_patch, T + 1)
               /\ \A c \in Cycles :
                      memory_storage'[last_patch].cycle_layer[c].cube
                          <=> (c \in {T, T + 1} \/ HasCube(last_patch, c))
               /\ memory_storage'[last_patch].current_occupied_cycle = T + 1 ]_vars

\* a Move arrived on a last patch that held Blocks before, later than the
\* cycle it was requested at
C22_Witness ==
    /\ IsMove
    /\ EarlierBlocks(last.patches[Len(last.patches)]) # {}
    /\ memory_storage[last.patches[Len(last.patches)]].current_occupied_cycle > last.cyl + 2

\* two positions one step apart: adjacent cells at one cycle, or one cell at
\* consecutive cycles
IsSpacetimeStep(p, q) ==
    \/ p[3] = q[3] /\ Abs(p[1] - q[1]) + Abs(p[2] - q[2]) = 1
    \/ p[1] = q[1] /\ p[2] = q[2] /\ q[3] = p[3] + 1

\* C23: the positions a Move emits form a unit-step spacetime path, each
\* consecutive pair being adjacent cells at one cycle or one cell at
\* consecutive cycles, and the Move emits a Pipe for each consecutive pair
C23_UnitStepPath ==
    IsMove =>
        /\ \A i \in 1..(Len(last.patches) - 1) :
               Abs(last.patches[i][1] - last.patches[i + 1][1])
                   + Abs(last.patches[i][2] - last.patches[i + 1][2]) = 1
        /\ \A i \in 1..(Len(last.positions) - 1) :
               /\ IsSpacetimeStep(last.positions[i], last.positions[i + 1])
               /\ InSeq(Pipe(last.positions[i], last.positions[i + 1]), last.pipes)

\* a Move over patches that held Blocks before waited on its way: it emitted
\* more positions than the unhindered Move of its chain does
C23_Witness ==
    /\ IsMove
    /\ Len(last.positions) > Len(last.patches) + 2
    /\ \A i \in 1..Len(last.patches) : EarlierBlocks(last.patches[i]) # {}


\* C24: the chain of the Load that takes a qubit out of a Data cell is the
\* reverse of the chain of the Store that put it there, whatever was stored
\* or loaded in between
C24_LoadChainReversesStoreChain ==
    [][ (last'.op = "LOAD" /\ last'.err = "none" /\ store_patches[last'.q_id] # <<>>)
            => last'.patches = Reverse(store_patches[last'.q_id]) ]_vars

\* the cells of a line of the layout
LineCells(line) ==
    {c \in DOMAIN memory_storage :
        IF line.is_row THEN c[2] = line.index ELSE c[1] = line.index}

\* the cells of a line that hold a resident qubit
OccupiedCells(line) ==
    {c \in LineCells(line) : \E q \in Qids : IsResident(q) /\ DictGet(qid_to_coord, q) = c}

\* some cell next to an occupied cell of the line, across the line, is an
\* access-hallway cell
HasAccessLine(line) ==
    \E c \in OccupiedCells(line) : \E d \in DOMAIN memory_storage :
        /\ memory_storage[d].patch_type = "A"
        /\ IF line.is_row THEN d[1] = c[1] /\ Abs(d[2] - c[2]) = 1
                          ELSE d[2] = c[2] /\ Abs(d[1] - c[1]) = 1

IsYoke == last.op \in {"YOKE_ROW", "YOKE_COL"}

\* C27: after a Yoke instruction of cycle c in run, every target patch holding
\* a resident qubit holds a Block at every cycle from c up to the Yoke's
\* second Block, which is at c + 1 or later
C27_YokeTargetsIdleFilled ==
    IsYoke =>
        \A coord \in OccupiedCells(last.args[1]) :
            /\ memory_storage[coord].current_occupied_cycle >= last.cyl + 1
            /\ \A c \in last.cyl..memory_storage[coord].current_occupied_cycle :
                   HasCube(coord, c)

\* C28: in run, a yoke on a line without a resident qubit yields no operation
\* and raises nothing, a yoke on an occupied line without an adjacent
\* access-hallway line fails with the no-access-line error, and either leaves
\* the timelines and the qubit map as they were
C28_EmptyOrInaccessibleYoke ==
    [][ (last'.op \in {"YOKE_ROW", "YOKE_COL"}) =>
           /\ OccupiedCells(last'.args[1]) = {}
                  => (last'.err = "none" /\ run_state'.pc = "ops")
           /\ (OccupiedCells(last'.args[1]) # {} /\ ~HasAccessLine(last'.args[1]))
                  => last'.err = "MemoryLayoutError"
           /\ (OccupiedCells(last'.args[1]) = {} \/ ~HasAccessLine(last'.args[1]))
                  => /\ memory_storage' = memory_storage
                     /\ coord_to_qid' = coord_to_qid
                     /\ qid_to_coord' = qid_to_coord ]_vars

\* C29: run takes the cycles of the stream in strictly increasing cycle
\* number: a cycle is begun only after every cycle begun before it is smaller
C29_CyclesIncrease ==
    [][ last'.op = "BEGIN" => \A k \in run_state.keys : k < last'.cyl ]_vars


\* the first run() of a YokeOperation has returned or raised
YokeRan == last.op = "YokeOperation.run" /\ run_state.n_ops = 1

\* C25: a Yoke scheduled at T, every target of which holds a Block at T - 1,
\* places on every target patch a Block at T carrying the majority type of
\* the targets at T - 1 and a Block at T + 1 carrying the same type, and on
\* every access-line patch exactly one Block, at T
C25_YokeBlocks ==
    (/\ YokeRan
     /\ operation.access_hallway_patches # <<>>
     /\ \A i \in 1..Len(operation.patches) :
            operation.cycle >= 1 /\ HasCube(operation.patches[i], operation.cycle - 1))
        => LET T == operation.cycle
               at_T_minus_1 == [i \in 1..Len(operation.patches) |->
                                   memory_storage[operation.patches[i]].cycle_layer[T - 1].kind]
           IN  /\ last.err = "none"
               /\ \E M \in majority_kinds(at_T_minus_1) :
                      \A i \in 1..Len(operation.patches) :
                          /\ memory_storage[operation.patches[i]].cycle_layer[T] = CubeSlot(M)
                          /\ memory_storage[operation.patches[i]].cycle_layer[T + 1] = CubeSlot(M)
               /\ \A i \in 1..Len(operation.access_hallway_patches) :
                      /\ HasCube(operation.access_hallway_patches[i], T)
                      /\ \A c \in Cycles :
                             (c > T => ~HasCube(operation.access_hallway_patches[i], c))

\* C26: the Block a Yoke places at T on each access-line patch has the type
\* of the targets' Blocks at T with exactly one component flipped: the y
\* component for a row yoke, the x component for a column yoke
C26_HallwayFlipNormalToLine ==
    (YokeRan /\ last.err = "none") =>
        LET T == operation.cycle
            M == memory_storage[operation.patches[1]].cycle_layer[T].kind
            flipped == IF operation.op_type = "YOKE_ROW"
                       THEN <<M[1], zx_flip(M[2]), M[3]>>
                       ELSE <<zx_flip(M[1]), M[2], M[3]>>
        IN  \A i \in 1..Len(operation.access_hallway_patches) :
                memory_storage[operation.access_hallway_patches[i]].cycle_layer[T].kind
                    = flipped


\* run() has been called on the operation, to_tqec_pipes() before it or not
HasRun(op) == InSeq("run", op.calls)

\* C30: whichever of run and to_tqec_pipes is called first on an operation
\* schedules its Blocks, and no later call schedules them again: a first
\* to_tqec_pipes raises nothing and executes the operation (a Move, a Yoke or
\* an Idle on a free patch adds Blocks), and a to_tqec_pipes after run changes
\* no timeline and returns the operation's pipes
C30_PipesRunOnce ==
    [][ last'.op = "to_tqec_pipes" =>
           /\ last'.err = "none"
           /\ last'.ret = operation'.pipes
           /\ (operation.calls = <<>>
                /\ (operation.type = "Idle" =>
                       memory_storage[operation.patches[1]].current_occupied_cycle
                           < operation.cycle))
                  => memory_storage' # memory_storage
           /\ (HasRun(operation) /\ operation.positions # <<>>)
                  => (memory_storage' = memory_storage /\ last'.ret = operation.pipes)
      ]_vars

\* C31: a call of path, whether it returns or raises, leaves every cell of
\* the grid with the value it had before the call
C31_PathLeavesGridUnchanged ==
    [][ last'.op = "path" => memory_layout' = memory_layout ]_vars

\* C32: the chain of a Load or a Store that the orchestrator creates joins
\* the qubit's Data patch and an Outlet patch, and every patch between the
\* two is an AccessHallway patch
C32_ChainThroughHallwayOnly ==
    [][ (last'.op \in {"LOAD", "STORE"} /\ last'.err = "none") =>
           LET chain == last'.patches
               data_end == IF last'.op = "LOAD" THEN chain[1] ELSE chain[Len(chain)]
               outlet_end == IF last'.op = "LOAD" THEN chain[Len(chain)] ELSE chain[1]
           IN  /\ memory_storage[data_end].patch_type = "D"
               /\ memory_storage[outlet_end].patch_type = "O"
               /\ \A i \in 2..(Len(chain) - 1) :
                      memory_storage[chain[i]].patch_type = "A"
      ]_vars

\* the patches of a type
PatchesOfType(patch_type) ==
    {c \in DOMAIN memory_storage : memory_storage[c].patch_type = patch_type}

RanOnPatches(call) ==
    \/ call.op \in {"LOAD", "STORE"} /\ call.patches # <<>>
    \/ call.op = "IDLEFILL"

\* C34: no instruction of a run and no idle-fill meets an occupied cycle:
\* every Block a step adds to a patch is at a cycle later than the patch's
\* current occupied cycle before the step, no Block present before the step is
\* replaced, and no operation that runs on patches ends in the conflict error
\* of add_a_cube
C34_NoScheduleConflict ==
    [][ /\ \A coord \in DOMAIN memory_storage : \A c \in Cycles :
               /\ (HasCube(coord, c) => memory_storage'[coord].cycle_layer[c].cube)
               /\ (memory_storage'[coord].cycle_layer[c].cube /\ ~HasCube(coord, c))
                      => c > memory_storage[coord].current_occupied_cycle
        /\ RanOnPatches(last') => last'.err # "ValueError" ]_vars

\* a Move has added Blocks to a patch that already held a Block from an
\* earlier instruction
C34_Witness ==
    /\ last.op \in {"LOAD", "STORE"} /\ last.err = "none"
    /\ \E i \in 1..Len(last.patches) :
           OccupiedCycles(last.patches[i])
               \ PlacedCycles(last.positions, last.patches[i]) # {}

\* C35: a Load or a Store that fails leaves the qubit map as it was before
\* the call: a failed Store leaves its qubit unmapped and a failed Load leaves
\* its qubit mapped
C35_FailedCallKeepsQubitMap ==
    [][ (last'.op \in {"LOAD", "STORE"} /\ last'.err # "none") =>
           /\ coord_to_qid' = coord_to_qid
           /\ qid_to_coord' = qid_to_coord ]_vars

\* the position lies on a timeline slot that holds a Block
HoldsBlock(pos) ==
    /\ <<pos[1], pos[2]>> \in DOMAIN memory_storage
    /\ pos[3] \in Cycles
    /\ HasCube(<<pos[1], pos[2]>>, pos[3])

\* C36: both ends of every Pipe an operation of the run emits are positions
\* that hold a Block, the Pipe from cycle - 1 to cycle that opens a Load
\* included
C36_PipeEndsHoldBlocks ==
    (last.op \in {"LOAD", "STORE"} /\ last.err = "none") =>
        \A k \in 1..Len(last.pipes) :
            HoldsBlock(last.pipes[k][1]) /\ HoldsBlock(last.pipes[k][2])

\* every Block of every timeline has a type of three components over X and Z
AllBlocksTyped ==
    \A coord \in DOMAIN memory_storage : \A c \in Cycles :
        HasCube(coord, c) => memory_storage[coord].cycle_layer[c].kind \in Kinds

C38_ResidentsReachCycle ==
    (last.op = "IDLEFILL" /\ last.err = "none") =>
        \A q_id \in Qids :
            IsResident(q_id) =>
                memory_storage[DictGet(qid_to_coord, q_id)].current_occupied_cycle
                    >= last.cyl

\* the idle-fill of a cycle has added the Block that brings a resident
\* qubit's patch, last occupied two or more cycles earlier, up to the cycle
C38_Witness ==
    /\ last.op = "IDLEFILL" /\ last.err = "none"
    /\ \E q_id \in Qids :
           /\ IsResident(q_id)
           /\ LET coord == DictGet(qid_to_coord, q_id)
              IN  /\ memory_storage[coord].current_occupied_cycle = last.cyl
                  /\ last.cyl >= 2
                  /\ ~HasCube(coord, last.cyl - 1)
                  /\ OccupiedCycles(coord) # {last.cyl}

====
